---- MODULE Spec2Model ----
(***************************************************************************)
(* State-machine model of the per-tenant state-management core of          *)
(* stublogs (src/src/index.js): the rate limiter, the reaction engine, the *)
(* page-view counter and the notification pipeline, over the tables of     *)
(* the D1 store.  Request handlers are processes; every awaited store      *)
(* statement is one atomic step of the store, and handlers interleave      *)
(* between their statements.                                               *)
(***************************************************************************)
EXTENDS Integers, Sequences, FiniteSets, TLC

VARIABLES
  now,            \* Date.now() of the platform, in ms
  ticks,          \* how many times the clock advanced (bounded)
  opsLeft,        \* calls the handlers may still start (bounded)
  pc,             \* pc[h]: where handler h stands in its current call
  op,             \* op[h]: the locals of handler h's current call
  ret,            \* ret[h]: the value handler h's last call returned
  rate_limits,    \* table rate_limits: rate_key -> row
  gcPending,      \* detached stale-row DELETEs scheduled and not yet run
  rlGhost,        \* history of the consume calls of each key (for the claims)
  reactions,      \* table reactions: how many rows hold each (site, post, key, actor)
  rxGhost,        \* history of the toggle calls (for the claims)
  page_views,     \* table page_views: (site, type, key) -> row
  pvGhost,        \* history of the incrementView calls of each key (for the claims)
  req,            \* req[h]: the HTTP request handler h serves, and its response
  posts,          \* table posts: the published (site, slug) pairs
  comments,       \* table comments: the rows stored, [id, siteId, postSlug]
  site_notifications,      \* table site_notifications: the rows stored by the model
  olderNotifications,      \* the ids of the older rows the table held before them
  site_telegram_settings,  \* table site_telegram_settings: site -> row
  secretKey,      \* the deployment's session secret, from which the AES key derives
  tasks,          \* the detached notification tasks, in the order they were queued
  ngcTasks,       \* the detached retention sweeps of site_notifications
  readyPromise,   \* the module's *TableReadyPromise variables: table -> promise, 0 for null
  bootstraps      \* the schema bootstraps started in the process, in their order

----------------------------------------------------------------------------
(* Bounds of the model *)

MaxOps == 3
\* The most pages passed to the navigation of a page
MaxNavPages == 4
MaxTicks == 2
MaxGc == 1
MaxNotifyOps == 2
MaxRequests == 2
\* The calls and the clock steps of a burst on one key
MaxBurstCalls == 5
MaxBurstTicks == 3
MaxSnapshots == 1
MaxStoredComments == 41
OlderNotificationsAtStart == 800

(* Program constants *)

MinWindowMs == 1000
DefaultWindowMs == 60000
GcMaxAgeMs == 86400000

Handlers == {"h1", "h2", "h3"}

\* The tables whose bootstrap is followed, and the store handles (env.DB) a
\* call may carry
SchemaTables == {"comments", "rate_limits"}
DbHandles == {"db1", "db2"}

\* The rate limiter and the reaction engine are explored with two handlers.
TwoHandlers == {"h1", "h2"}

\* The notification pipeline is explored with requests served one at a time;
\* the tasks they queue run detached, interleaved with them and each other.
OneHandler == {"h1"}

\* Keys consumed by direct calls, and the key POST /api/reactions builds as
\* `${clientIp}:${site.slug}:reactions`
DirectRateKeys == {"ka", "kb"}
ReactionRateKey == "ip1:alice:reactions"
\* and the key POST /api/comments builds as `${clientIp}:${site.slug}:comments`
CommentRateKey == "ip1:alice:comments"
\* and the keys POST /api/view builds as
\* `${clientIp}:${site.slug}:view:${resourceType}:${resourceKey}`
ViewRateKey(slug, type, key) == "ip1:" \o slug \o ":view:" \o type \o ":" \o key
ViewRateKeys ==
  {ViewRateKey("alice", "post", "hello-world"), ViewRateKey("alice", "home", "__home__"),
   ViewRateKey("alice", "post", "a"), ViewRateKey("alice", "post", "b")}
\* and the key POST /api/login builds as `${clientIp}:${hostSlug}`
LoginRateKey == "ip1:alice"
RateKeys ==
  DirectRateKeys \cup {ReactionRateKey, CommentRateKey, LoginRateKey} \cup ViewRateKeys

REACTION_RATE_WINDOW_MS == 60000
REACTION_RATE_MAX_ATTEMPTS == 30
COMMENT_RATE_WINDOW_MS == 60000
COMMENT_RATE_MAX_ATTEMPTS == 6
LOGIN_RATE_WINDOW_MS == 900000
LOGIN_RATE_MAX_ATTEMPTS == 5
VIEW_RATE_WINDOW_MS == 10000
VIEW_RATE_MAX_ATTEMPTS == 2
COMMENTS_PAGE_SIZE == 20
MaxPageSize == 80
MaxPage == 9999

\* The clock advances by half a second while requests are served, or by a
\* day and a bit while none is in flight (no request stays open for a day).
TickSteps == {500, GcMaxAgeMs + 500}

\* (windowMs, maxAttempts) as a caller passes them; a key embeds the action
\* name, so every call on one key passes the same pair.
RateArgsOf(k) ==
  CASE k = "ka" -> [windowMs |-> 500, maxAttempts |-> 0]
    [] k = "kb" -> [windowMs |-> 1500, maxAttempts |-> 2]
    [] k = CommentRateKey -> [windowMs |-> COMMENT_RATE_WINDOW_MS,
                              maxAttempts |-> COMMENT_RATE_MAX_ATTEMPTS]
    [] k = LoginRateKey -> [windowMs |-> LOGIN_RATE_WINDOW_MS,
                            maxAttempts |-> LOGIN_RATE_MAX_ATTEMPTS]
    [] k \in ViewRateKeys -> [windowMs |-> VIEW_RATE_WINDOW_MS,
                              maxAttempts |-> VIEW_RATE_MAX_ATTEMPTS]
    [] OTHER -> [windowMs |-> REACTION_RATE_WINDOW_MS,
                 maxAttempts |-> REACTION_RATE_MAX_ATTEMPTS]

Max(a, b) == IF a >= b THEN a ELSE b

Idle(h) == pc[h] \in {"idle", "done", "failed"}

\* Handlers are interchangeable: a new request is served by the first free one.
Free(h) ==
  /\ Idle(h)
  /\ h = "h2" => ~Idle("h1")
  /\ h = "h3" => (~Idle("h1") /\ ~Idle("h2"))

rateVars == <<rate_limits, gcPending, rlGhost>>
reactVars == <<reactions, rxGhost>>
viewVars == <<page_views, pvGhost>>
postVars == <<posts, comments>>
apiVars == <<req, postVars>>
\* The memoized schema bootstraps of the process
schemaVars == <<readyPromise, bootstraps>>
notifyVars ==
  <<site_notifications, olderNotifications, site_telegram_settings, secretKey, schemaVars,
    tasks, ngcTasks>>
nonRateVars == <<reactVars, viewVars, apiVars, notifyVars>>
nonReactVars == <<rateVars, viewVars, apiVars, notifyVars>>
nonViewVars == <<rateVars, reactVars, apiVars, notifyVars>>
nonNotifyVars == <<rateVars, reactVars, viewVars>>

NoReq == [kind |-> "none"]

\* Where handler h goes on when the call it awaited returns: a call made on
\* its own is through, a request handler resumes after the await.
Resume(h, after) == IF req[h].kind = "none" THEN "done" ELSE after

NoOp == [kind |-> "none"]
NoRet == [kind |-> "none"]

----------------------------------------------------------------------------
(* Rate limiter: consumeRateLimit, maybeScheduleRateLimitGc, clearRateLimit *)

NoRateRow == [exists |-> FALSE, windowStartMs |-> 0, attempts |-> 0, updatedAt |-> 0]

RateRow(start, attempts, updated) ==
  [exists |-> TRUE, windowStartMs |-> start, attempts |-> attempts, updatedAt |-> updated]

\* Number(windowMs) || 60_000, at least 1_000
SafeWindowMs(windowMs) ==
  Max(IF windowMs = 0 THEN DefaultWindowMs ELSE windowMs, MinWindowMs)

\* Number(maxAttempts) || 1, at least 1
SafeMaxAttempts(maxAttempts) ==
  Max(IF maxAttempts = 0 THEN 1 ELSE maxAttempts, 1)

\* A boundary slip: the window still counts as open at exactly windowMs.
SameWindowInclusive(existing, nowMs, safeWindowMs) ==
  existing.exists /\ nowMs - existing.windowStartMs <= safeWindowMs

\* existing && nowMs - windowStartMs < safeWindowMs
SameWindow(existing, nowMs, safeWindowMs) ==
  existing.exists /\ nowMs - existing.windowStartMs < safeWindowMs

\* An upsert that leaves attempts at the column's default
RateUpsertDefault(table, key, nowMs) ==
  [table EXCEPT ![key] = RateRow(nowMs, 0, nowMs)]

\* INSERT ... VALUES (?, ?, 1, ?) ON CONFLICT(rate_key) DO UPDATE ...
RateUpsertFresh(table, key, nowMs) ==
  [table EXCEPT ![key] = RateRow(nowMs, 1, nowMs)]

\* An update that stores the time of the call and not its count
RateUpdateTimeOnly(table, key, nextAttempts, nowMs) ==
  IF table[key].exists
    THEN [table EXCEPT ![key] = RateRow(table[key].windowStartMs, table[key].attempts, nowMs)]
    ELSE table

\* An update that restarts the window at the time of the call
RateUpdateSliding(table, key, nextAttempts, nowMs) ==
  IF table[key].exists
    THEN [table EXCEPT ![key] = RateRow(nowMs, nextAttempts, nowMs)]
    ELSE table

\* UPDATE rate_limits SET attempts = ?, updated_at = ? WHERE rate_key = ?
RateUpdateAttempts(table, key, nextAttempts, nowMs) ==
  IF table[key].exists
    THEN [table EXCEPT ![key] = RateRow(table[key].windowStartMs, nextAttempts, nowMs)]
    ELSE table

\* A sweep that deletes every row not written at this very moment
RateGcDeleteEager(table, t) ==
  [k \in RateKeys |-> IF table[k].exists /\ table[k].updatedAt < t THEN NoRateRow ELSE table[k]]

\* DELETE FROM rate_limits WHERE updated_at < now - 1 day
RateGcDelete(table, t) ==
  [k \in RateKeys |->
     IF table[k].exists /\ table[k].updatedAt < t - GcMaxAgeMs
       THEN NoRateRow ELSE table[k]]

RateResult(allowed, attempts, remaining, retryAfterMs) ==
  [kind |-> "rate", allowed |-> allowed, attempts |-> attempts,
   remaining |-> remaining, retryAfterMs |-> retryAfterMs]

\* A refusal that tells the time left of the window, however short
RateDeniedTimeLeft(existing, nowMs, safeWindowMs) ==
  RateResult(FALSE, existing.attempts, 0, safeWindowMs - (nowMs - existing.windowStartMs))

\* The result of the exhausted branch.
RateDenied(existing, nowMs, safeWindowMs) ==
  RateResult(FALSE, existing.attempts, 0,
             Max(safeWindowMs - (nowMs - existing.windowStartMs), MinWindowMs))

\* Ghost: what a counter of the calls of one key, kept apart from the table,
\* says about a call made at time t.  open: a window was opened; start: when;
\* n: calls made in it; reopened: a later window was opened after the first
\* ran out; denied: some call was refused.
NoGhostWin == [open |-> FALSE, start |-> 0, n |-> 0, reopened |-> FALSE, denied |-> FALSE]

GhostFresh(g, t, w) == ~g.open \/ t - g.start >= w

GhostAfterCall(g, t, w, m) ==
  IF GhostFresh(g, t, w)
    THEN [open |-> TRUE, start |-> t, n |-> 1, reopened |-> g.open, denied |-> g.denied]
    ELSE [g EXCEPT !.n = g.n + 1, !.denied = g.denied \/ g.n + 1 > m]

\* Ghost: one more call of the key was allowed; where the history of a key
\* is traced, the Date.now() of the allowed calls is kept in their order
GhostGranted(g, t) ==
  [g EXCEPT !.granted = g.granted + 1,
            !.allowedAt = IF g.traced THEN Append(g.allowedAt, t) ELSE g.allowedAt]

\* The locals of a call die when it returns; what the claims compare the
\* returned value with is kept.
Returned(o) ==
  [kind |-> o.kind, key |-> o.key,
   expectFresh |-> o.expectFresh, expectAllowed |-> o.expectAllowed]

BusyOnKey(k) ==
  \E h \in Handlers : ~Idle(h) /\ op[h].kind = "consume" /\ op[h].key = k

\* maybeScheduleRateLimitGc: Math.random() < 0.01 dispatches the DELETE
\* without awaiting it.
maybeScheduleRateLimitGc(scheduled) ==
  IF scheduled THEN gcPending + 1 ELSE gcPending

\* consumeRateLimit up to its SELECT: the sweep is scheduled, the clock is
\* read, the arguments are made safe.
consumeRateLimitCall(h, k, args, scheduled) ==
  /\ scheduled => gcPending < MaxGc
  /\ gcPending' = maybeScheduleRateLimitGc(scheduled)
  /\ LET w == SafeWindowMs(args.windowMs)
         m == SafeMaxAttempts(args.maxAttempts)
         g == rlGhost[k]
     IN /\ op' = [op EXCEPT ![h] =
                    [kind |-> "consume", key |-> k, nowMs |-> now,
                     safeWindowMs |-> w, safeMaxAttempts |-> m,
                     existing |-> NoRateRow,
                     expectFresh |-> GhostFresh(g.win, now, w),
                     expectAllowed |-> GhostFresh(g.win, now, w) \/ g.win.n + 1 <= m]]
        /\ rlGhost' = [rlGhost EXCEPT ![k] =
                         [g EXCEPT !.win = GhostAfterCall(g.win, now, w, m),
                                   !.overlapped = g.overlapped \/ BusyOnKey(k)]]
  /\ pc' = [pc EXCEPT ![h] = "rl_select"]
  /\ UNCHANGED <<now, ticks, ret, rate_limits>>

\* A call of consumeRateLimit made on its own (the handler serves no request)
consumeRateLimitBegin(h, k, args, scheduled) ==
  /\ Free(h)
  /\ opsLeft > 0
  /\ opsLeft' = opsLeft - 1
  /\ consumeRateLimitCall(h, k, args, scheduled)
  /\ req' = [req EXCEPT ![h] = NoReq]
  /\ UNCHANGED <<reactVars, viewVars, postVars, notifyVars>>

consumeRateLimitSelect(h) ==
  /\ pc[h] = "rl_select"
  /\ LET existing == rate_limits[op[h].key]
         same == SameWindow(existing, op[h].nowMs, op[h].safeWindowMs)
     IN IF same /\ existing.attempts >= op[h].safeMaxAttempts
          THEN /\ ret' = [ret EXCEPT ![h] =
                            RateDenied(existing, op[h].nowMs, op[h].safeWindowMs)]
               /\ pc' = [pc EXCEPT ![h] = Resume(h, "rq_checked")]
               /\ op' = [op EXCEPT ![h] = Returned(op[h])]
          ELSE /\ op' = [op EXCEPT ![h].existing = existing]
               /\ pc' = [pc EXCEPT ![h] = "rl_write"]
               /\ ret' = ret
  /\ UNCHANGED <<now, ticks, opsLeft, rate_limits, gcPending, rlGhost, nonRateVars>>

consumeRateLimitWrite(h) ==
  /\ pc[h] = "rl_write"
  /\ LET k == op[h].key
         existing == op[h].existing
         m == op[h].safeMaxAttempts
         nextAttempts == existing.attempts + 1
     IN IF ~SameWindow(existing, op[h].nowMs, op[h].safeWindowMs)
          THEN /\ rate_limits' = RateUpsertFresh(rate_limits, k, op[h].nowMs)
               /\ ret' = [ret EXCEPT ![h] = RateResult(TRUE, 1, Max(m - 1, 0), 0)]
               /\ rlGhost' = [rlGhost EXCEPT ![k] = GhostGranted(rlGhost[k], op[h].nowMs)]
          ELSE /\ rate_limits' = RateUpdateAttempts(rate_limits, k, nextAttempts, op[h].nowMs)
               /\ ret' = [ret EXCEPT ![h] =
                            RateResult(TRUE, nextAttempts, Max(m - nextAttempts, 0), 0)]
               /\ rlGhost' = [rlGhost EXCEPT ![k] = GhostGranted(rlGhost[k], op[h].nowMs)]
  /\ pc' = [pc EXCEPT ![h] = Resume(h, "rq_checked")]
  /\ op' = [op EXCEPT ![h] = Returned(op[h])]
  /\ UNCHANGED <<now, ticks, opsLeft, gcPending, nonRateVars>>

\* The detached cleanup statement runs at the store.
rateLimitGcRun ==
  /\ gcPending > 0
  /\ gcPending' = gcPending - 1
  /\ rate_limits' = RateGcDelete(rate_limits, now)
  /\ UNCHANGED <<now, ticks, opsLeft, pc, op, ret, rlGhost, nonRateVars>>

\* A clear that deletes nothing
RateClearNothing(table, key) == table

\* DELETE FROM rate_limits WHERE rate_key = ?
RateClear(table, key) == [table EXCEPT ![key] = NoRateRow]

clearRateLimit(h, k) ==
  /\ Free(h)
  /\ opsLeft > 0
  /\ opsLeft' = opsLeft - 1
  /\ rate_limits' = RateClear(rate_limits, k)
  /\ rlGhost' = [rlGhost EXCEPT ![k].cleared = TRUE]
  /\ op' = [op EXCEPT ![h] = [kind |-> "clear", key |-> k]]
  /\ ret' = [ret EXCEPT ![h] = NoRet]
  /\ pc' = [pc EXCEPT ![h] = "done"]
  /\ UNCHANGED <<now, ticks, gcPending, nonRateVars>>

Tick(d) ==
  /\ ticks < MaxTicks
  /\ d > GcMaxAgeMs => \A h \in Handlers : Idle(h)
  /\ ticks' = ticks + 1
  /\ now' = now + d
  /\ UNCHANGED <<opsLeft, pc, op, ret, rateVars, nonRateVars>>

----------------------------------------------------------------------------
(* Reaction engine: togglePostReaction, moveReactionsToPost,               *)
(* deleteReactionsByPost over table reactions                              *)

Sites == {1, 2}
Posts == {"a", "b"}

ReactionPresets ==
  << "lion", "dragon", "hummingbird", "deer", "eagle", "wolf", "unicorn",
     "phoenix", "orca", "fire", "rocket", "spark", "mindblown", "respect" >>

PresetKeys == { ReactionPresets[i] : i \in DOMAIN ReactionPresets }

\* String(value).trim().toLowerCase() on the inputs the model feeds
TrimLower(v) ==
  CASE v = " Fire" -> "fire"
    [] v = "AAAAAAAAAAAAAAAAAAAA" -> "aaaaaaaaaaaaaaaaaaaa"
    [] v = " Comment " -> "comment"
    [] v = " A" -> "a"
    [] OTHER -> v

\* sanitizeReactionKey: the trimmed lower-case key when it is a preset, else ""
sanitizeReactionKey(v) ==
  IF TrimLower(v) \in PresetKeys THEN TrimLower(v) ELSE ""

\* The actor tokens the reaction rows of the model carry
StoredActors == {"aaaaaaaaaaaaaaaaaaaa", "bbbbbbbbbbbbbbbbbbbb"}

\* cf-connecting-ip ("" for a request without the header), user-agent and
\* SESSION_SECRET as the model's requests and deployments carry them
ClientIps == {"", "1.1.1.1", "2.2.2.2"}
UserAgents == {"ua1", "ua2"}
SessionSecrets == {"secret1", "secret2"}

\* sha256Hex: the 64 hex characters of the digest, written as the input they
\* are the digest of (different inputs have different digests)
sha256Hex(value) == "sha256(" \o value \o ")"

\* randomHex(16): 32 hex characters drawn at random
RandomHex == {"11111111111111111111111111111111", "22222222222222222222222222222222"}

\* `${ip}|${ua}|${getSessionSecret(env)}|reactor-ip-v1`
IpTokenInput(ip, ua, secret) == ip \o "|" \o ua \o "|" \o secret \o "|reactor-ip-v1"

IpDigests ==
  { sha256Hex(IpTokenInput(ip, ua, secret)) :
      ip \in ClientIps \ {""}, ua \in UserAgents, secret \in SessionSecrets }

\* `${existing}:${ipToken}:reactor-mix-v1`
MixInput(existing, ipToken) == existing \o ":" \o ipToken \o ":reactor-mix-v1"

MixDigests ==
  { sha256Hex(MixInput(existing, ipToken)) :
      existing \in StoredActors \cup IpDigests, ipToken \in IpDigests \cup RandomHex }

\* /^[a-f0-9]{20,64}$/ on the tokens the model feeds
HexTokens == StoredActors \cup RandomHex \cup IpDigests \cup MixDigests

\* sanitizeActorToken: the trimmed lower-case token when it is 20..64 hex, else ""
sanitizeActorToken(v) ==
  IF TrimLower(v) \in HexTokens THEN TrimLower(v) ELSE ""

\* Keys that occur in stored rows of the model
StoredKeys == {"lion", "fire"}

ReactionTuples == Sites \X Posts \X StoredKeys \X StoredActors

EmptyReactions == [t \in ReactionTuples |-> 0]

\* What the handlers are called with: (site, post, reactionKey, actorToken)
ToggleInputs ==
  { <<1, "a", "lion", "aaaaaaaaaaaaaaaaaaaa">>,
    <<1, "a", "lion", "bbbbbbbbbbbbbbbbbbbb">>,
    <<1, "a", " Fire", "AAAAAAAAAAAAAAAAAAAA">>,
    <<1, "b", "lion", "aaaaaaaaaaaaaaaaaaaa">>,
    <<2, "a", "lion", "aaaaaaaaaaaaaaaaaaaa">>,
    <<1, "a", "thumbsup", "aaaaaaaaaaaaaaaaaaaa">>,
    <<1, "a", "lion", "xyz">> }

\* A constraint that is not enforced
UniqueViolationIgnored(table, t) == FALSE

\* UNIQUE(site_id, post_slug, reaction_key, actor_token): a statement that
\* would leave two rows with the tuple t is rejected
UniqueViolation(table, t) == table[t] >= 1

\* A delete that matches nothing (a wrong bound column)
ReactionDeleteNothing(table, t) == table

\* DELETE FROM reactions WHERE site_id = ? AND post_slug = ? AND
\* reaction_key = ? AND actor_token = ?
ReactionDelete(table, t) == [table EXCEPT ![t] = 0]

\* INSERT INTO reactions (...) VALUES (...), once the constraint let it pass
ReactionInsert(table, t) == [table EXCEPT ![t] = table[t] + 1]

\* The rows of (site, from) as they read after SET post_slug = to
MovedTuple(t, to) == <<t[1], to, t[3], t[4]>>

\* UPDATE reactions SET post_slug = ? WHERE site_id = ? AND post_slug = ?
ReactionMoveConflict(table, site, from, to) ==
  /\ from # to
  /\ \E t \in ReactionTuples :
       /\ t[1] = site /\ t[2] = from /\ table[t] >= 1
       /\ UniqueViolation(table, MovedTuple(t, to))

ReactionMove(table, site, from, to) ==
  IF from = to THEN table
  ELSE [t \in ReactionTuples |->
          IF t[1] = site /\ t[2] = from THEN 0
          ELSE IF t[1] = site /\ t[2] = to
                 THEN table[t] + table[<<t[1], from, t[3], t[4]>>]
                 ELSE table[t]]

\* DELETE FROM reactions WHERE site_id = ? AND post_slug = ?
ReactionDeleteByPost(table, site, post) ==
  [t \in ReactionTuples |-> IF t[1] = site /\ t[2] = post THEN 0 ELSE table[t]]

ToggleResult(active) == [kind |-> "toggle", active |-> active]
StoreError == [kind |-> "error"]

NoTuple == <<0, "", "", "">>

\* Ghost: one pair of successive toggle calls of one tuple.  phase 1: the
\* first call runs; 2: it returned; 3: the second runs; 4: it returned.
NoPair ==
  [phase |-> 0, tuple |-> NoTuple, owner |-> "none", before |-> EmptyReactions,
   after |-> EmptyReactions, r1 |-> NoRet, r2 |-> NoRet,
   otherToggle |-> FALSE, otherWrite |-> FALSE]

\* Ghost: two toggle calls of one tuple in flight at once, the tuple's row
\* untouched between their starts; forgotten when a later call starts.
NoRace == [on |-> FALSE, tuple |-> NoTuple, present0 |-> FALSE, calls |-> {}]

InToggle(h, t) ==
  pc[h] \in {"rx_select", "rx_insert", "rx_delete"} /\ op[h].tuple = t

PairAtBegin(pair, h, t, track) ==
  IF pair.phase \in {1, 2, 3} /\ pair.tuple = t
    THEN IF pair.phase = 2
           THEN [pair EXCEPT !.phase = 3, !.owner = h]
           ELSE [pair EXCEPT !.otherToggle = TRUE]
    ELSE IF track
           THEN [NoPair EXCEPT !.phase = 1, !.tuple = t, !.owner = h, !.before = reactions]
           ELSE pair

\* A statement of handler h on tuple t (NoTuple: a statement on a whole post)
\* left the table as `table` and, when `result` is not NoRet, ended h's call.
PairAfterStatement(pair, h, t, table, result) ==
  LET own == pair.phase \in {1, 3} /\ pair.owner = h /\ pair.tuple = t
      p1 == IF pair.phase \in {1, 2, 3} /\ ~own /\ table # reactions
              THEN [pair EXCEPT !.otherWrite = TRUE] ELSE pair
  IN IF own /\ result # NoRet
       THEN IF pair.phase = 1
              THEN [p1 EXCEPT !.phase = 2, !.r1 = result]
              ELSE [p1 EXCEPT !.phase = 4, !.r2 = result, !.after = table]
       ELSE p1

\* togglePostReaction up to its SELECT: the key and the token are sanitized.
togglePostReactionCall(h, in, track) ==
  /\ LET key == sanitizeReactionKey(in[3])
         tok == sanitizeActorToken(in[4])
         t == <<in[1], in[2], key, tok>>
     IN IF key = "" \/ tok = ""
          THEN /\ ~track
               /\ op' = [op EXCEPT ![h] = [kind |-> "toggle", tuple |-> NoTuple]]
               /\ ret' = [ret EXCEPT ![h] = ToggleResult(FALSE)]
               /\ pc' = [pc EXCEPT ![h] = Resume(h, "rq_toggled")]
               /\ rxGhost' = [rxGhost EXCEPT !.race = NoRace]
          ELSE /\ track => (rxGhost.pair.phase \in {0, 4} /\ reactions[t] = 0)
               /\ op' = [op EXCEPT ![h] =
                           [kind |-> "toggle", tuple |-> t, present0 |-> reactions[t] >= 1]]
               /\ ret' = ret
               /\ pc' = [pc EXCEPT ![h] = "rx_select"]
               /\ rxGhost' =
                    [pair |-> PairAtBegin(rxGhost.pair, h, t, track),
                     race |-> IF \E g \in Handlers \ {h} :
                                    InToggle(g, t) /\ op[g].present0 = (reactions[t] >= 1)
                                THEN [on |-> TRUE, tuple |-> t, present0 |-> reactions[t] >= 1,
                                      calls |-> {h} \cup {g \in Handlers \ {h} : InToggle(g, t)}]
                                ELSE NoRace]
  /\ UNCHANGED <<now, ticks, reactions>>

togglePostReactionBegin(h, in, track) ==
  /\ Free(h)
  /\ opsLeft > 0
  /\ opsLeft' = opsLeft - 1
  /\ togglePostReactionCall(h, in, track)
  /\ UNCHANGED nonReactVars

togglePostReactionSelect(h) ==
  /\ pc[h] = "rx_select"
  /\ pc' = [pc EXCEPT ![h] = IF reactions[op[h].tuple] >= 1 THEN "rx_delete" ELSE "rx_insert"]
  /\ UNCHANGED <<now, ticks, opsLeft, op, ret, reactVars, nonReactVars>>

togglePostReactionDelete(h) ==
  /\ pc[h] = "rx_delete"
  /\ LET t == op[h].tuple
         table == ReactionDelete(reactions, t)
     IN /\ reactions' = table
        /\ ret' = [ret EXCEPT ![h] = ToggleResult(FALSE)]
        /\ rxGhost' = [rxGhost EXCEPT
                         !.pair = PairAfterStatement(rxGhost.pair, h, t, table, ToggleResult(FALSE))]
  /\ pc' = [pc EXCEPT ![h] = Resume(h, "rq_toggled")]
  /\ UNCHANGED <<now, ticks, opsLeft, op, nonReactVars>>

togglePostReactionInsert(h) ==
  /\ pc[h] = "rx_insert"
  /\ LET t == op[h].tuple
     IN IF UniqueViolation(reactions, t)
          THEN /\ reactions' = reactions
               /\ ret' = [ret EXCEPT ![h] = StoreError]
               /\ pc' = [pc EXCEPT ![h] = "failed"]
               /\ rxGhost' = [rxGhost EXCEPT
                                !.pair = PairAfterStatement(rxGhost.pair, h, t, reactions, StoreError)]
          ELSE /\ reactions' = ReactionInsert(reactions, t)
               /\ ret' = [ret EXCEPT ![h] = ToggleResult(TRUE)]
               /\ pc' = [pc EXCEPT ![h] = Resume(h, "rq_toggled")]
               /\ rxGhost' = [rxGhost EXCEPT
                                !.pair = PairAfterStatement(rxGhost.pair, h, t,
                                           ReactionInsert(reactions, t), ToggleResult(TRUE))]
  /\ UNCHANGED <<now, ticks, opsLeft, op, nonReactVars>>

moveReactionsToPost(h, site, from, to) ==
  /\ Free(h)
  /\ opsLeft > 0
  /\ opsLeft' = opsLeft - 1
  /\ op' = [op EXCEPT ![h] = [kind |-> "move", tuple |-> NoTuple]]
  /\ IF ReactionMoveConflict(reactions, site, from, to)
       THEN /\ reactions' = reactions
            /\ ret' = [ret EXCEPT ![h] = StoreError]
            /\ pc' = [pc EXCEPT ![h] = "failed"]
            /\ rxGhost' = [rxGhost EXCEPT !.race = NoRace]
       ELSE /\ reactions' = ReactionMove(reactions, site, from, to)
            /\ ret' = [ret EXCEPT ![h] = NoRet]
            /\ pc' = [pc EXCEPT ![h] = "done"]
            /\ rxGhost' = [pair |-> PairAfterStatement(rxGhost.pair, h, NoTuple,
                                        ReactionMove(reactions, site, from, to), NoRet),
                            race |-> NoRace]
  /\ UNCHANGED <<now, ticks, nonReactVars>>

deleteReactionsByPost(h, site, post) ==
  /\ Free(h)
  /\ opsLeft > 0
  /\ opsLeft' = opsLeft - 1
  /\ op' = [op EXCEPT ![h] = [kind |-> "delete", tuple |-> NoTuple]]
  /\ reactions' = ReactionDeleteByPost(reactions, site, post)
  /\ ret' = [ret EXCEPT ![h] = NoRet]
  /\ pc' = [pc EXCEPT ![h] = "done"]
  /\ rxGhost' = [pair |-> PairAfterStatement(rxGhost.pair, h, NoTuple,
                              ReactionDeleteByPost(reactions, site, post), NoRet),
                  race |-> NoRace]
  /\ UNCHANGED <<now, ticks, nonReactVars>>

----------------------------------------------------------------------------
(* View counter: incrementPageViewCount over table page_views               *)

HOME_VIEW_KEY == "__home__"

\* normalizeViewResourceType: "home" after trim and lower-case, else "post"
normalizeViewResourceType(v) ==
  IF v \in {"home", "HOME", " home "} THEN "home" ELSE "post"

\* normalizeViewResourceKey: the home key for type home, else the trimmed
\* lower-case slug (at most 120 characters; the model's slugs are shorter)
normalizeViewResourceKey(type, v) ==
  IF type = "home" THEN HOME_VIEW_KEY
  ELSE CASE v = " Hello-World" -> "hello-world"
         [] v = "   " -> ""
         [] OTHER -> v

ViewKeys == Sites \X {"post", "home"} \X ({"hello-world", HOME_VIEW_KEY} \cup Posts)

\* What the handlers are called with: (siteId, resourceType, resourceKey)
ViewInputs ==
  { <<1, "post", "hello-world">>,
    <<1, "post", " Hello-World">>,
    <<1, "HOME", "">>,
    <<2, "post", "hello-world">>,
    <<1, "post", "   ">>,
    <<1, "", "">> }

NoViewRow == [exists |-> FALSE, viewCount |-> 0]

\* An upsert that stores the inserted value on conflict
ViewUpsertOverwrite(table, k) ==
  [table EXCEPT ![k] = [exists |-> TRUE, viewCount |-> 1]]

\* An upsert whose inserted row starts at 0
ViewUpsertFromZero(table, k) ==
  [table EXCEPT ![k] =
     IF table[k].exists
       THEN [exists |-> TRUE, viewCount |-> table[k].viewCount + 1]
       ELSE [exists |-> TRUE, viewCount |-> 0]]

\* INSERT ... VALUES (?, ?, ?, 1, ?) ON CONFLICT(...) DO UPDATE SET
\* view_count = page_views.view_count + 1
ViewUpsert(table, k) ==
  [table EXCEPT ![k] =
     IF table[k].exists
       THEN [exists |-> TRUE, viewCount |-> table[k].viewCount + 1]
       ELSE [exists |-> TRUE, viewCount |-> 1]]

\* A read-back that reports the count before the increment
ViewReadBackStale(table, k) == Max(table[k].viewCount - 1, 0)

\* SELECT view_count ... LIMIT 1; Math.max(Number(row?.viewCount || 0), 0)
ViewReadBack(table, k) == Max(table[k].viewCount, 0)

ViewResult(count) == [kind |-> "view", count |-> count]

InView(h, k) == pc[h] \in {"pv_upsert", "pv_select"} /\ op[h].viewKey = k

\* incrementPageViewCount up to its INSERT: the type and the key are normalised
incrementPageViewCountCall(h, in) ==
  LET type == normalizeViewResourceType(in[2])
      key == normalizeViewResourceKey(type, in[3])
      k == <<in[1], type, key>>
  IN IF key = ""
       THEN /\ op' = [op EXCEPT ![h] = [kind |-> "view", valid |-> FALSE]]
            /\ ret' = [ret EXCEPT ![h] = ViewResult(0)]
            /\ pc' = [pc EXCEPT ![h] = Resume(h, "vw_counted")]
            /\ pvGhost' = pvGhost
       ELSE /\ op' = [op EXCEPT ![h] =
                        [kind |-> "view", valid |-> TRUE, viewKey |-> k,
                         nth |-> pvGhost[k].calls + 1]]
            /\ ret' = ret
            /\ pc' = [pc EXCEPT ![h] = "pv_upsert"]
            /\ pvGhost' = [pvGhost EXCEPT ![k] =
                             [calls |-> pvGhost[k].calls + 1,
                              overlapped |-> pvGhost[k].overlapped
                                               \/ \E g \in Handlers : InView(g, k)]]

incrementPageViewCountBegin(h, in) ==
  /\ Free(h)
  /\ opsLeft > 0
  /\ opsLeft' = opsLeft - 1
  /\ incrementPageViewCountCall(h, in)
  /\ UNCHANGED <<now, ticks, page_views, nonViewVars>>

incrementPageViewCountUpsert(h) ==
  /\ pc[h] = "pv_upsert"
  /\ page_views' = ViewUpsert(page_views, op[h].viewKey)
  /\ pc' = [pc EXCEPT ![h] = "pv_select"]
  /\ UNCHANGED <<now, ticks, opsLeft, op, ret, pvGhost, nonViewVars>>

incrementPageViewCountSelect(h) ==
  /\ pc[h] = "pv_select"
  /\ ret' = [ret EXCEPT ![h] = ViewResult(ViewReadBack(page_views, op[h].viewKey))]
  /\ pc' = [pc EXCEPT ![h] = Resume(h, "vw_counted")]
  /\ UNCHANGED <<now, ticks, opsLeft, op, viewVars, nonViewVars>>

----------------------------------------------------------------------------
(* Notification pipeline: queueSiteNotificationEvent, createSiteNotification, *)
(* getSiteNotifySettings, upsertSiteNotifySettings, sendTelegramViaCustomBot, *)
(* maybeScheduleNotificationsGc                                              *)

\* The sites table (not written by the modelled requests): slug -> id, 0 for none
SiteOfSlug(slug) ==
  CASE slug = "alice" -> 1
    [] slug = "bob" -> 2
    [] OTHER -> 0

PublishedPosts == {<<1, "a">>, <<1, "b">>, <<2, "a">>}

\* sanitizeNotifyEventType: "comment" or "reaction" after trim and lower-case, else ""
sanitizeNotifyEventType(v) ==
  IF TrimLower(v) \in {"comment", "reaction"} THEN TrimLower(v) ELSE ""

\* /^\d{6,14}:[A-Za-z0-9_-]{20,140}$/ on the tokens the model feeds
ValidBotTokens == {"123456:AAAAAAAAAAAAAAAAAAAAAAAA", "654321:BBBBBBBBBBBBBBBBBBBBBBBB"}

sanitizeTelegramBotToken(v) == IF v \in ValidBotTokens THEN v ELSE ""

\* /^-?\d{5,20}$/ on the chat ids the model feeds
ValidChatIds == {"-100123456"}

sanitizeTelegramChatId(v) == IF v \in ValidChatIds THEN v ELSE ""

\* A JSON body field that is absent, or present with a boolean value
Undefined == [given |-> FALSE, val |-> FALSE]
Given(b) == [given |-> TRUE, val |-> b]

normalizeNotifyBool(value, fallback) ==
  IF ~value.given THEN fallback ELSE value.val

\* The stored form of a secret: "" for none, else v1$iv$AES-GCM(plain) under
\* the key derived from the session secret `key`
NoCipher == [v |-> "", key |-> "", plain |-> ""]

\* A value stored as it was given, without a version and under no key
encryptSensitiveValueAsGiven(plain, key) ==
  IF plain = "" THEN NoCipher ELSE [v |-> "", key |-> "", plain |-> plain]

encryptSensitiveValue(plain, key) ==
  IF plain = "" THEN NoCipher ELSE [v |-> "v1", key |-> key, plain |-> plain]

\* A decryption that does not check the key
decryptSensitiveValueUnchecked(c, key) ==
  IF c = NoCipher \/ c.v # "v1" THEN [ok |-> TRUE, plain |-> ""]
  ELSE [ok |-> TRUE, plain |-> c.plain]

\* decryptSensitiveValue: "" for an empty or malformed value; the AES-GCM tag
\* check throws under another key
decryptSensitiveValue(c, key) ==
  IF c = NoCipher \/ c.v # "v1" THEN [ok |-> TRUE, plain |-> ""]
  ELSE IF c.key # key THEN [ok |-> FALSE, plain |-> ""]
  ELSE [ok |-> TRUE, plain |-> c.plain]

NoSettingsRow ==
  [exists |-> FALSE, enabled |-> 0, notifyComments |-> 1, notifyReactions |-> 1,
   telegramChatId |-> "", telegramBotTokenEnc |-> NoCipher]

defaultSiteNotifySettings ==
  [enabled |-> FALSE, notifyComments |-> TRUE, notifyReactions |-> TRUE,
   telegramChatId |-> "", hasBotToken |-> FALSE, telegramBotToken |-> ""]

\* getSiteNotifySettings on the row its SELECT returned
getSiteNotifySettings(row, includeBotToken, key) ==
  IF ~row.exists THEN defaultSiteNotifySettings
  ELSE LET enc == row.telegramBotTokenEnc
           dec == decryptSensitiveValue(enc, key)
           token == IF includeBotToken /\ enc # NoCipher /\ dec.ok THEN dec.plain ELSE ""
       IN [enabled |-> row.enabled = 1,
           notifyComments |-> row.notifyComments # 0,
           notifyReactions |-> row.notifyReactions # 0,
           telegramChatId |-> sanitizeTelegramChatId(row.telegramChatId),
           hasBotToken |-> enc # NoCipher,
           telegramBotToken |-> sanitizeTelegramBotToken(token)]

\* The site whose owner changes the settings
SettingsSites == {1}

\* What POST /api/admin/notify-settings passes on from the request body
SettingsPayloads ==
  { [enabled |-> Given(TRUE), notifyComments |-> Undefined, notifyReactions |-> Undefined,
     telegramChatId |-> "-100123456", telegramBotToken |-> "123456:AAAAAAAAAAAAAAAAAAAAAAAA",
     clearBotToken |-> FALSE],
    [enabled |-> Given(FALSE), notifyComments |-> Given(TRUE), notifyReactions |-> Given(TRUE),
     telegramChatId |-> "-100123456", telegramBotToken |-> "123456:AAAAAAAAAAAAAAAAAAAAAAAA",
     clearBotToken |-> FALSE],
    [enabled |-> Given(TRUE), notifyComments |-> Given(TRUE), notifyReactions |-> Given(FALSE),
     telegramChatId |-> "-100123456", telegramBotToken |-> "123456:AAAAAAAAAAAAAAAAAAAAAAAA",
     clearBotToken |-> FALSE],
    [enabled |-> Given(TRUE), notifyComments |-> Given(FALSE), notifyReactions |-> Given(TRUE),
     telegramChatId |-> "@channel", telegramBotToken |-> "",
     clearBotToken |-> FALSE],
    [enabled |-> Given(TRUE), notifyComments |-> Undefined, notifyReactions |-> Undefined,
     telegramChatId |-> "-100123456", telegramBotToken |-> "not-a-token",
     clearBotToken |-> TRUE] }

\* A row whose token is always the one of the payload, none when it has none
SettingsRowTokenOfPayload(payload, existingToken, key) ==
  [exists |-> TRUE,
   enabled |-> IF normalizeNotifyBool(payload.enabled, FALSE) THEN 1 ELSE 0,
   notifyComments |-> IF normalizeNotifyBool(payload.notifyComments, TRUE) THEN 1 ELSE 0,
   notifyReactions |-> IF normalizeNotifyBool(payload.notifyReactions, TRUE) THEN 1 ELSE 0,
   telegramChatId |-> sanitizeTelegramChatId(payload.telegramChatId),
   telegramBotTokenEnc |->
     encryptSensitiveValue(sanitizeTelegramBotToken(payload.telegramBotToken), key)]

\* The row upsertSiteNotifySettings binds to its INSERT ... ON CONFLICT
SettingsRow(payload, existingToken, key) ==
  LET rawToken == sanitizeTelegramBotToken(payload.telegramBotToken)
      tokenEnc == IF rawToken # "" THEN encryptSensitiveValue(rawToken, key)
                  ELSE IF payload.clearBotToken THEN NoCipher
                  ELSE existingToken
  IN [exists |-> TRUE,
      enabled |-> IF normalizeNotifyBool(payload.enabled, FALSE) THEN 1 ELSE 0,
      notifyComments |-> IF normalizeNotifyBool(payload.notifyComments, TRUE) THEN 1 ELSE 0,
      notifyReactions |-> IF normalizeNotifyBool(payload.notifyReactions, TRUE) THEN 1 ELSE 0,
      telegramChatId |-> sanitizeTelegramChatId(payload.telegramChatId),
      telegramBotTokenEnc |-> tokenEnc]

\* upsertSiteNotifySettings, from the call to the SELECT of the stored token
upsertSiteNotifySettingsBegin(h, site, payload) ==
  /\ Free(h)
  /\ opsLeft > 0
  /\ opsLeft' = opsLeft - 1
  /\ op' = [op EXCEPT ![h] =
              [kind |-> "settings", site |-> site, payload |-> payload,
               existingToken |-> site_telegram_settings[site].telegramBotTokenEnc]]
  /\ pc' = [pc EXCEPT ![h] = "ns_write"]
  /\ UNCHANGED <<now, ticks, ret, nonNotifyVars, apiVars, notifyVars>>

upsertSiteNotifySettingsWrite(h) ==
  /\ pc[h] = "ns_write"
  /\ site_telegram_settings' =
       [site_telegram_settings EXCEPT ![op[h].site] =
          SettingsRow(op[h].payload, op[h].existingToken, secretKey)]
  /\ pc' = [pc EXCEPT ![h] = "ns_read"]
  /\ UNCHANGED <<now, ticks, opsLeft, op, ret, nonNotifyVars, apiVars,
                 site_notifications, olderNotifications, secretKey, schemaVars, tasks, ngcTasks>>

\* return getSiteNotifySettings(env, siteId, { includeBotToken: false })
upsertSiteNotifySettingsRead(h) ==
  /\ pc[h] = "ns_read"
  /\ ret' = [ret EXCEPT ![h] =
               [kind |-> "settings",
                settings |-> getSiteNotifySettings(site_telegram_settings[op[h].site],
                                                   FALSE, secretKey)]]
  /\ op' = [op EXCEPT ![h] = [kind |-> "settings", site |-> op[h].site]]
  /\ pc' = [pc EXCEPT ![h] = "done"]
  /\ UNCHANGED <<now, ticks, opsLeft, nonNotifyVars, apiVars, notifyVars>>

\* GET /api/admin/notify-settings of the site's owner:
\* getSiteNotifySettings(env, site.id, { includeBotToken: false })
notifySettingsRequest(h, site) ==
  /\ Free(h)
  /\ opsLeft > 0
  /\ opsLeft' = opsLeft - 1
  /\ ret' = [ret EXCEPT ![h] =
               [kind |-> "settings",
                settings |-> getSiteNotifySettings(site_telegram_settings[site],
                                                   FALSE, secretKey)]]
  /\ op' = [op EXCEPT ![h] = [kind |-> "settings", site |-> site]]
  /\ pc' = [pc EXCEPT ![h] = "done"]
  /\ UNCHANGED <<now, ticks, nonNotifyVars, apiVars, notifyVars>>

\* A new deployment carries another session secret.  Requests and tasks of
\* the old deployment finish under the secret they started with.
rotateSecret ==
  /\ secretKey = "secret1"
  /\ opsLeft > 0
  /\ \A h \in Handlers : Idle(h)
  /\ \A i \in DOMAIN tasks : tasks[i].pc \in {"done", "failed"}
  /\ opsLeft' = opsLeft - 1
  /\ secretKey' = "secret2"
  /\ UNCHANGED <<now, ticks, pc, op, ret, nonNotifyVars, apiVars, site_notifications,
                 olderNotifications, site_telegram_settings, schemaVars, tasks, ngcTasks>>

\* The event object queueSiteNotificationEvent builds from its payload
NotifyEvent(payload) ==
  [eventType |-> sanitizeNotifyEventType(payload.eventType),
   postSlug |-> TrimLower(payload.postSlug),
   reactionKey |-> sanitizeReactionKey(payload.reactionKey)]

\* if (!event.eventType || !event.postSlug) return;
ValidEvent(event) == event.eventType # "" /\ event.postSlug # ""

\* A gate that looks at the credentials only
RelayGateIgnoringToggles(settings, eventType) ==
  settings.enabled /\ settings.telegramChatId # "" /\ settings.telegramBotToken # ""

\* The returns between getSiteNotifySettings and sendTelegramViaCustomBot
RelayGate(settings, eventType) ==
  /\ settings.enabled /\ settings.telegramChatId # "" /\ settings.telegramBotToken # ""
  /\ ~(eventType = "comment" /\ ~settings.notifyComments)
  /\ ~(eventType = "reaction" /\ ~settings.notifyReactions)

\* Ghost: what the settings row as stored says about relaying an event of
\* type T: enabled, the toggle of T on, a chat id, a bot token that the
\* current secret decrypts.
SettingsAllowRelay(row, eventType, key) ==
  /\ row.exists
  /\ row.enabled = 1
  /\ row.telegramChatId # ""
  /\ row.telegramBotTokenEnc # NoCipher
  /\ row.telegramBotTokenEnc.key = key
  /\ eventType = "comment" => row.notifyComments = 1
  /\ eventType = "reaction" => row.notifyReactions = 1

\* Who queued a task (ghost): a reaction request, with its id, its actor and
\* what its toggle returned, or a direct call.
DirectOrigin == [kind |-> "direct", id |-> 0, actor |-> "", active |-> FALSE]

\* Ghost: a bot token is stored that the current secret does not decrypt:
\* written under another key, damaged (the tag check fails: the model writes
\* the key of a damaged value as "damaged"), or not of the form v1$iv$data
Undecryptable(row, key) ==
  /\ row.exists
  /\ row.telegramBotTokenEnc # NoCipher
  /\ row.telegramBotTokenEnc.v # "v1" \/ row.telegramBotTokenEnc.key # key

\* The task as queueSiteNotificationEvent leaves it at its first await.
\* fault, inserted, loaded, rowsAtLoad, allowed, undecryptable and relays
\* are ghosts.
NewTask(site, payload, origin) ==
  [site |-> site, event |-> NotifyEvent(payload), origin |-> origin,
   pc |-> IF ValidEvent(NotifyEvent(payload)) THEN "nt_insert" ELSE "done",
   fault |-> "none", inserted |-> FALSE, loaded |-> FALSE, rowsAtLoad |-> 0,
   allowed |-> FALSE, undecryptable |-> FALSE, relays |-> 0]

\* What queueSiteNotificationEvent is called with besides the reaction handler
QueuePayloads ==
  { [eventType |-> "comment", postSlug |-> "a", reactionKey |-> ""],
    [eventType |-> " Comment ", postSlug |-> " A", reactionKey |-> ""],
    [eventType |-> "reaction", postSlug |-> "b", reactionKey |-> " Fire"],
    [eventType |-> "like", postSlug |-> "a", reactionKey |-> ""],
    [eventType |-> "reaction", postSlug |-> "", reactionKey |-> "lion"] }

\* The sites the payloads are queued for: every payload for the site with
\* settings, the plain comment for the other
QueueCalls ==
  {<<1, payload>> : payload \in QueuePayloads}
    \cup {<<2, [eventType |-> "comment", postSlug |-> "a", reactionKey |-> ""]>>}

queueSiteNotificationEvent(site, payload) ==
  /\ opsLeft > 0
  /\ opsLeft' = opsLeft - 1
  /\ tasks' = Append(tasks, NewTask(site, payload, DirectOrigin))
  /\ UNCHANGED <<now, ticks, pc, op, ret, nonNotifyVars, apiVars, site_notifications,
                 olderNotifications, site_telegram_settings, secretKey, schemaVars, ngcTasks>>

\* The older rows belong to the site with settings.
OlderSites == SettingsSites

\* AUTOINCREMENT: one more than the largest id ever stored
NextNotificationId ==
  olderNotifications.hi + Cardinality({j \in DOMAIN tasks : tasks[j].inserted}) + 1

RowsOfTask(table, i) == {r \in table : r.task = i}

\* An insert that stores nothing
NotificationInsertNothing(table, row) == table

\* INSERT INTO site_notifications (...) VALUES (...)
NotificationInsert(table, row) == table \cup {row}

\* read_at TEXT: NULL, or the time the row was marked read
NullTime == << >>
TimeAt(t) == << t >>

\* createSiteNotification on the event of a task: null without a type or a
\* slug, else the row it inserts, read_at left NULL (task is a ghost column)
NotificationRow(i) ==
  [id |-> NextNotificationId, siteId |-> tasks[i].site,
   eventType |-> sanitizeNotifyEventType(tasks[i].event.eventType),
   postSlug |-> TrimLower(tasks[i].event.postSlug),
   reactionKey |-> sanitizeReactionKey(tasks[i].event.reactionKey),
   readAt |-> NullTime, task |-> i]

\* maybeScheduleNotificationsGc: Math.random() < 0.02 starts the sweep
maybeScheduleNotificationsGc(site, scheduled) ==
  IF scheduled
    THEN Append(ngcTasks, [pc |-> "gc_select", site |-> site, cutoffId |-> 0])
    ELSE ngcTasks

\* await createSiteNotification(...); maybeScheduleNotificationsGc(...).
\* storeFails: the store rejects the statement; the task's catch logs it.
notifyTaskInsert(i, storeFails, scheduled) ==
  /\ tasks[i].pc = "nt_insert"
  /\ IF storeFails
       THEN /\ ~scheduled
            /\ tasks' = [tasks EXCEPT ![i].pc = "failed", ![i].fault = "insert"]
            /\ UNCHANGED <<site_notifications, ngcTasks>>
       ELSE /\ scheduled => Len(ngcTasks) < MaxGc
            /\ site_notifications' =
                 IF ValidEvent(NotificationRow(i))
                   THEN NotificationInsert(site_notifications, NotificationRow(i))
                   ELSE site_notifications
            /\ ngcTasks' = maybeScheduleNotificationsGc(tasks[i].site, scheduled)
            /\ tasks' = [tasks EXCEPT ![i].pc = "nt_load", ![i].inserted = TRUE]
  /\ UNCHANGED <<now, ticks, opsLeft, pc, op, ret, nonNotifyVars, apiVars,
                 olderNotifications, site_telegram_settings, secretKey, schemaVars>>

\* await getSiteNotifySettings(env, site.id, { includeBotToken: true }) and
\* the returns that follow it
notifyTaskLoad(i, storeFails) ==
  /\ tasks[i].pc = "nt_load"
  /\ IF storeFails
       THEN tasks' = [tasks EXCEPT ![i].pc = "failed", ![i].fault = "load"]
       ELSE LET row == site_telegram_settings[tasks[i].site]
                settings == getSiteNotifySettings(row, TRUE, secretKey)
                type == tasks[i].event.eventType
            IN tasks' = [tasks EXCEPT
                 ![i].pc = IF RelayGate(settings, type) THEN "nt_send" ELSE "done",
                 ![i].loaded = TRUE,
                 ![i].rowsAtLoad = Cardinality(RowsOfTask(site_notifications, i)),
                 ![i].allowed = SettingsAllowRelay(row, type, secretKey),
                 ![i].undecryptable = Undecryptable(row, secretKey)]
  /\ UNCHANGED <<now, ticks, opsLeft, pc, op, ret, nonNotifyVars, apiVars,
                 site_notifications, olderNotifications, site_telegram_settings,
                 secretKey, schemaVars, ngcTasks>>

RelayOutcomes == {"ok", "http_error", "network_error"}

\* A task that sends again after a failed relay call
AfterRelayRetrying(outcome) == IF outcome = "ok" THEN "done" ELSE "nt_send"

\* Where the task is after the relay call: through, or in its catch, which
\* logs the error and ends the task
AfterRelay(outcome) == IF outcome = "ok" THEN "done" ELSE "failed"

\* await sendTelegramViaCustomBot(...): one fetch; a rejected fetch or a
\* non-2xx status throws, and the task's catch logs it
notifyTaskSend(i, outcome) ==
  /\ tasks[i].pc = "nt_send"
  /\ tasks' = [tasks EXCEPT
       ![i].relays = tasks[i].relays + 1,
       ![i].pc = AfterRelay(outcome),
       ![i].fault = IF outcome = "ok" THEN "none" ELSE "relay"]
  /\ UNCHANGED <<now, ticks, opsLeft, pc, op, ret, nonNotifyVars, apiVars,
                 site_notifications, olderNotifications, site_telegram_settings,
                 secretKey, schemaVars, ngcTasks>>

NotificationsGcOffset == 799

\* SELECT id ... WHERE site_id = ? ORDER BY created_at DESC LIMIT 1 OFFSET 799:
\* the stored rows are newer than the older ones and fewer than 800, so the
\* row at the offset, if any, is an older one; 0 for none
NotificationCutoff(site) ==
  LET m == Cardinality({r \in site_notifications : r.siteId = site})
      id == olderNotifications.hi - (NotificationsGcOffset - m)
  IN IF site \in OlderSites /\ id >= olderNotifications.lo THEN id ELSE 0

notificationsGcSelect(j) ==
  /\ ngcTasks[j].pc = "gc_select"
  /\ ngcTasks' = [ngcTasks EXCEPT
       ![j].cutoffId = NotificationCutoff(ngcTasks[j].site),
       ![j].pc = IF NotificationCutoff(ngcTasks[j].site) = 0 THEN "done" ELSE "gc_delete"]
  /\ UNCHANGED <<now, ticks, opsLeft, pc, op, ret, nonNotifyVars, apiVars,
                 site_notifications, olderNotifications, site_telegram_settings,
                 secretKey, schemaVars, tasks>>

\* DELETE FROM site_notifications WHERE site_id = ? AND id < ?
notificationsGcDelete(j) ==
  /\ ngcTasks[j].pc = "gc_delete"
  /\ site_notifications' =
       {r \in site_notifications :
          ~(r.siteId = ngcTasks[j].site /\ r.id < ngcTasks[j].cutoffId)}
  /\ olderNotifications' =
       IF ngcTasks[j].site \in OlderSites
         THEN [olderNotifications EXCEPT
                 !.lo = Max(olderNotifications.lo, ngcTasks[j].cutoffId)]
         ELSE olderNotifications
  /\ ngcTasks' = [ngcTasks EXCEPT ![j].pc = "done"]
  /\ UNCHANGED <<now, ticks, opsLeft, pc, op, ret, nonNotifyVars, apiVars,
                 site_telegram_settings, secretKey, schemaVars, tasks>>

----------------------------------------------------------------------------
(* markSiteNotificationsRead *)

\* options as POST /api/admin/notifications/read passes them: all, or the
\* ids of the body (the first rows the model stores, and a value that is
\* no id)
MarkOptions ==
  { [all |-> TRUE, ids |-> {}],
    [all |-> FALSE, ids |-> {}],
    [all |-> FALSE, ids |-> {OlderNotificationsAtStart + 1}],
    [all |-> FALSE, ids |-> {0, OlderNotificationsAtStart + 2}] }

\* .map(Number).filter((item) => Number.isInteger(item) && item > 0)
SafeIds(ids) == {id \in ids : id > 0}

\* An UPDATE that sets read_at on every selected row
NotificationsMarkReadOverwrite(table, site, options, t) ==
  {IF r.siteId = site /\ (options.all \/ r.id \in SafeIds(options.ids))
     THEN [r EXCEPT !.readAt = TimeAt(t)] ELSE r : r \in table}

\* UPDATE site_notifications SET read_at = COALESCE(read_at, ?)
\* WHERE site_id = ? [AND id IN (...)]; nothing without all and without ids
NotificationsMarkRead(table, site, options, t) ==
  IF ~options.all /\ SafeIds(options.ids) = {} THEN table
  ELSE {IF r.siteId = site /\ (options.all \/ r.id \in SafeIds(options.ids))
          THEN [r EXCEPT !.readAt = IF r.readAt = NullTime THEN TimeAt(t) ELSE r.readAt]
          ELSE r : r \in table}

markSiteNotificationsRead(h, site, options) ==
  /\ Free(h)
  /\ opsLeft > 0
  /\ opsLeft' = opsLeft - 1
  /\ site_notifications' = NotificationsMarkRead(site_notifications, site, options, now)
  /\ op' = [op EXCEPT ![h] = [kind |-> "markread", site |-> site, options |-> options]]
  /\ ret' = [ret EXCEPT ![h] = NoRet]
  /\ pc' = [pc EXCEPT ![h] = "done"]
  /\ UNCHANGED <<now, ticks, nonNotifyVars, apiVars, olderNotifications,
                 site_telegram_settings, secretKey, schemaVars, tasks, ngcTasks>>

----------------------------------------------------------------------------
(* listSiteNotifications *)

NOTIFICATION_PAGE_SIZE == 40

\* The rows of a site among the stored ones, and how many older rows it has
\* (the older rows were read before start-up)
NotificationsOf(table, site) == {r \in table : r.siteId = site}

OlderCount(site) ==
  IF site \in OlderSites THEN olderNotifications.hi - olderNotifications.lo + 1 ELSE 0

\* listSiteNotifications(env, siteId) up to SELECT COUNT(*) ... WHERE site_id = ?
listSiteNotificationsBegin(h, site) ==
  /\ Free(h)
  /\ opsLeft > 0
  /\ opsLeft' = opsLeft - 1
  /\ op' = [op EXCEPT ![h] =
       [kind |-> "notifications", site |-> site, total |-> 0, unread |-> 0]]
  /\ ret' = [ret EXCEPT ![h] = NoRet]
  /\ pc' = [pc EXCEPT ![h] = "ln_total"]
  /\ UNCHANGED <<now, ticks, nonNotifyVars, apiVars, notifyVars>>

\* SELECT COUNT(*) AS total FROM site_notifications WHERE site_id = ?
listSiteNotificationsTotal(h) ==
  /\ pc[h] = "ln_total"
  /\ op' = [op EXCEPT ![h].total =
       Cardinality(NotificationsOf(site_notifications, op[h].site)) + OlderCount(op[h].site)]
  /\ pc' = [pc EXCEPT ![h] = "ln_unread"]
  /\ UNCHANGED <<now, ticks, opsLeft, ret, nonNotifyVars, apiVars, notifyVars>>

\* SELECT COUNT(*) ... WHERE site_id = ? AND read_at IS NULL
listSiteNotificationsUnread(h) ==
  /\ pc[h] = "ln_unread"
  /\ op' = [op EXCEPT ![h].unread =
       Cardinality({r \in NotificationsOf(site_notifications, op[h].site) :
                      r.readAt = NullTime})]
  /\ pc' = [pc EXCEPT ![h] = "ln_rows"]
  /\ UNCHANGED <<now, ticks, opsLeft, ret, nonNotifyVars, apiVars, notifyVars>>

\* SELECT id, ..., read_at FROM site_notifications WHERE site_id = ? ORDER BY
\* created_at DESC LIMIT ? OFFSET ? of the first page, and the return: the
\* stored rows are the newest and fewer than a page; the older rows that
\* fill the page are left out
listSiteNotificationsRows(h) ==
  /\ pc[h] = "ln_rows"
  /\ ret' = [ret EXCEPT ![h] =
       [kind |-> "notifications",
        notifications |->
          {[id |-> r.id, eventType |-> r.eventType, postSlug |-> r.postSlug,
            reactionKey |-> r.reactionKey, read |-> r.readAt # NullTime] :
             r \in NotificationsOf(site_notifications, op[h].site)},
        unread |-> op[h].unread, total |-> op[h].total, page |-> 1,
        pageSize |-> NOTIFICATION_PAGE_SIZE]]
  /\ pc' = [pc EXCEPT ![h] = "done"]
  /\ UNCHANGED <<now, ticks, opsLeft, op, nonNotifyVars, apiVars, notifyVars>>

----------------------------------------------------------------------------
(* handleApi, POST /api/reactions *)

\* What the requests carry: the host's site slug, the body's postSlug and
\* reactionKey, and the token resolveReactorToken derives from the client's
\* address, user agent and cookie (all requests come from one address).
ReactionRequests ==
  { [slug |-> "alice", postSlug |-> "a", reactionKey |-> "lion",
     actor |-> "aaaaaaaaaaaaaaaaaaaa"],
    [slug |-> "alice", postSlug |-> " A", reactionKey |-> "lion",
     actor |-> "bbbbbbbbbbbbbbbbbbbb"],
    [slug |-> "alice", postSlug |-> "a", reactionKey |-> "thumbsup",
     actor |-> "aaaaaaaaaaaaaaaaaaaa"],
    [slug |-> "alice", postSlug |-> "", reactionKey |-> "lion",
     actor |-> "aaaaaaaaaaaaaaaaaaaa"],
    [slug |-> "alice", postSlug |-> "zz", reactionKey |-> "lion",
     actor |-> "aaaaaaaaaaaaaaaaaaaa"],
    [slug |-> "nobody", postSlug |-> "a", reactionKey |-> "lion",
     actor |-> "aaaaaaaaaaaaaaaaaaaa"] }

\* The request as the handler holds it; active and status are filled in as
\* it proceeds (status 0: no response yet).  id numbers the requests by the
\* budget left when they arrive: an earlier request has the larger id.
NewRequest(r, id) ==
  [kind |-> "reaction", id |-> id, site |-> SiteOfSlug(r.slug),
   postSlug |-> TrimLower(r.postSlug), reactionKey |-> sanitizeReactionKey(r.reactionKey),
   actor |-> r.actor, status |-> 0, active |-> FALSE, count |-> 0]

Respond(h, status) == [req EXCEPT ![h].status = status]

\* getSiteBySlug, then consumeRateLimit up to its SELECT
reactionRequestBegin(h, r, scheduled) ==
  /\ Free(h)
  /\ opsLeft > 0
  /\ opsLeft' = opsLeft - 1
  /\ IF SiteOfSlug(r.slug) = 0
       THEN /\ ~scheduled
            /\ req' = [req EXCEPT ![h] =
                         [NewRequest(r, opsLeft) EXCEPT !.status = 404]]
            /\ pc' = [pc EXCEPT ![h] = "done"]
            /\ op' = [op EXCEPT ![h] = NoOp]
            /\ UNCHANGED <<now, ticks, ret, rateVars>>
       ELSE /\ req' = [req EXCEPT ![h] = NewRequest(r, opsLeft)]
            /\ consumeRateLimitCall(h, ReactionRateKey, RateArgsOf(ReactionRateKey), scheduled)
  /\ UNCHANGED <<reactVars, viewVars, postVars, notifyVars>>

\* A lookup that finds a post whatever the table holds
PostFoundAlways(table, site, postSlug) == TRUE

\* getPostMeta(env, site.id, postSlug, false) returns a post: a published
\* row of the site with the slug
PostFound(table, site, postSlug) == <<site, postSlug>> \in table

\* The 429, the body checks, getPostMeta, resolveReactorToken, then
\* togglePostReaction up to its SELECT
reactionRequestValidate(h) ==
  /\ pc[h] = "rq_checked"
  /\ req[h].kind = "reaction"
  /\ IF ~ret[h].allowed
       THEN /\ req' = Respond(h, 429)
            /\ pc' = [pc EXCEPT ![h] = "done"]
            /\ UNCHANGED <<now, ticks, op, ret, reactVars>>
     ELSE IF req[h].postSlug = "" \/ req[h].reactionKey = ""
       THEN /\ req' = Respond(h, 400)
            /\ pc' = [pc EXCEPT ![h] = "done"]
            /\ UNCHANGED <<now, ticks, op, ret, reactVars>>
     ELSE IF ~PostFound(posts, req[h].site, req[h].postSlug)
       THEN /\ req' = Respond(h, 404)
            /\ pc' = [pc EXCEPT ![h] = "done"]
            /\ UNCHANGED <<now, ticks, op, ret, reactVars>>
       ELSE /\ req' = req
            /\ togglePostReactionCall(h, <<req[h].site, req[h].postSlug,
                                           req[h].reactionKey, req[h].actor>>, FALSE)
  /\ UNCHANGED <<opsLeft, rateVars, viewVars, postVars, notifyVars>>

\* A handler that notifies on every toggle
ShouldNotifyAlways(active) == TRUE

\* if (active) { queueSiteNotificationEvent(...) }
ShouldNotify(active) == active

\* The call of queueSiteNotificationEvent, up to the await of the snapshot
reactionRequestNotify(h) ==
  /\ pc[h] = "rq_toggled"
  /\ tasks' =
       IF ShouldNotify(ret[h].active)
         THEN Append(tasks,
                NewTask(req[h].site,
                        [eventType |-> "reaction", postSlug |-> req[h].postSlug,
                         reactionKey |-> req[h].reactionKey],
                        [kind |-> "reaction", id |-> req[h].id, actor |-> req[h].actor,
                         active |-> ret[h].active]))
         ELSE tasks
  /\ req' = [req EXCEPT ![h].active = ret[h].active]
  /\ pc' = [pc EXCEPT ![h] = "rq_snapshot"]
  /\ UNCHANGED <<now, ticks, opsLeft, op, ret, nonNotifyVars, postVars, site_notifications,
                 olderNotifications, site_telegram_settings, secretKey, schemaVars, ngcTasks>>

RECURSIVE CountRows(_, _)
CountRows(table, ts) ==
  IF ts = {} THEN 0
  ELSE LET t == CHOOSE x \in ts : TRUE
       IN table[t] + CountRows(table, ts \ {t})

\* listPostReactionSnapshot: SELECT reaction_key, COUNT(*) ... GROUP BY
\* reaction_key, read for the toggled key
ReactionCount(table, site, post, key) ==
  CountRows(table, {t \in ReactionTuples : t[1] = site /\ t[2] = post /\ t[3] = key})

\* await listPostReactionSnapshot(...); the 200 response
reactionRequestRespond(h) ==
  /\ pc[h] = "rq_snapshot"
  /\ req' = [req EXCEPT
       ![h].status = 200,
       ![h].count = ReactionCount(reactions, req[h].site, req[h].postSlug, req[h].reactionKey)]
  /\ pc' = [pc EXCEPT ![h] = "done"]
  /\ UNCHANGED <<now, ticks, opsLeft, op, ret, nonNotifyVars, postVars, notifyVars>>

----------------------------------------------------------------------------
(* Reaction snapshot: buildReactionSnapshot, renderPostPage,               *)
(* listPostReactionSnapshot                                                *)

\* The index of a preset in REACTION_PRESETS
PresetIndex(key) == CHOOSE i \in DOMAIN ReactionPresets : ReactionPresets[i] = key

\* The keys and counts of the maps the model passes; a key a map does not
\* hold has no entry
CountKeys == {"lion", "dragon", "rocket"}
CountValues == {0, 1, 3, 5}
CountMaps ==
  [CountKeys -> CountValues]
    \cup { [k \in {"respect", "lion"} |-> IF k = "lion" THEN -2 ELSE 1],
           [k \in {"fire", "thumbsup"} |-> 4] }
SelectedSets == { {}, {"rocket"}, {" Fire", "thumbsup"} }

\* Math.max(Number(countsByKey.get(preset.key) || 0), 0)
CountOf(countsByKey, key) ==
  IF key \in DOMAIN countsByKey THEN Max(countsByKey[key], 0) ELSE 0

\* A comparator that puts the smaller count first
BeforeAscending(left, right) ==
  IF left.count # right.count THEN left.count < right.count
  ELSE left.orderIndex < right.orderIndex

\* The comparator of the sort is negative: the larger count first, then
\* the smaller orderIndex
Before(left, right) ==
  IF left.count # right.count THEN right.count - left.count < 0
  ELSE left.orderIndex - right.orderIndex < 0

RECURSIVE InsertSorted(_, _)
InsertSorted(item, sorted) ==
  IF sorted = << >> THEN << item >>
  ELSE IF Before(Head(sorted), item)
    THEN << Head(sorted) >> \o InsertSorted(item, Tail(sorted))
    ELSE << item >> \o sorted

\* Array.prototype.sort with that comparator
RECURSIVE SortItems(_)
SortItems(items) ==
  IF items = << >> THEN << >> ELSE InsertSorted(Head(items), SortItems(Tail(items)))

RECURSIVE SumCounts(_)
SumCounts(items) == IF items = << >> THEN 0 ELSE Head(items).count + SumCounts(Tail(items))

\* buildReactionSnapshot(countsByKey, selectedKeys)
buildReactionSnapshot(countsByKey, selectedKeys) ==
  LET normalizedSelected == {sanitizeReactionKey(k) : k \in selectedKeys} \ {""}
      mapped == [i \in DOMAIN ReactionPresets |->
                  [key |-> ReactionPresets[i], orderIndex |-> i,
                   count |-> CountOf(countsByKey, ReactionPresets[i]),
                   selected |-> ReactionPresets[i] \in normalizedSelected]]
      sorted == SortItems(mapped)
      items == [i \in DOMAIN sorted |->
                  [key |-> sorted[i].key, count |-> sorted[i].count,
                   selected |-> sorted[i].selected]]
  IN [kind |-> "snapshot", items |-> items, total |-> SumCounts(items),
      selectedKeys |-> SelectSeq([i \in DOMAIN items |-> items[i].key],
                                 LAMBDA k : k \in normalizedSelected)]

\* The orders in which a caller of renderPostPage may list the items
ItemOrders == {"same", "reversed", "rotated"}

RECURSIVE Reversed(_)
Reversed(seq) == IF seq = << >> THEN << >> ELSE Append(Reversed(Tail(seq)), Head(seq))

Reordered(seq, order) ==
  CASE order = "reversed" -> Reversed(seq)
    [] order = "rotated" -> IF seq = << >> THEN seq ELSE Append(Tail(seq), Head(seq))
    [] OTHER -> seq

\* new Map(items.map((item) => [sanitizeReactionKey(item.key), count])
\*   .filter((entry) => Boolean(entry[0]))): a later entry replaces an earlier
RECURSIVE MapOfItems(_)
MapOfItems(items) ==
  IF items = << >> THEN << >>
  ELSE LET last == items[Len(items)]
           rest == MapOfItems(SubSeq(items, 1, Len(items) - 1))
           key == sanitizeReactionKey(last.key)
       IN IF key = "" THEN rest
          ELSE [k \in (DOMAIN rest) \cup {key} |->
                  IF k = key THEN Max(last.count, 0) ELSE rest[k]]

buildReactionSnapshotCall(h, countsByKey, selectedKeys) ==
  /\ Free(h)
  /\ opsLeft > 0
  /\ opsLeft' = opsLeft - 1
  /\ op' = [op EXCEPT ![h] =
       [kind |-> "snapshot", countsByKey |-> countsByKey, selectedKeys |-> selectedKeys]]
  /\ ret' = [ret EXCEPT ![h] = buildReactionSnapshot(countsByKey, selectedKeys)]
  /\ pc' = [pc EXCEPT ![h] = "done"]
  /\ UNCHANGED <<now, ticks, nonNotifyVars, apiVars, notifyVars>>

\* renderPostPage with options.reactionSnapshot the snapshot handler h holds,
\* its items listed in the given order: the buttons of the page, in order
renderPostPage(h, order) ==
  /\ pc[h] = "done"
  /\ ret[h].kind = "snapshot"
  /\ LET given == Reordered(ret[h].items, order)
         reactionSnapshot ==
           buildReactionSnapshot(MapOfItems(given),
                                 {ret[h].selectedKeys[i] : i \in DOMAIN ret[h].selectedKeys})
     IN ret' = [ret EXCEPT ![h] =
          [kind |-> "page", snapshot |-> ret[h], order |-> order,
           buttons |-> [i \in DOMAIN reactionSnapshot.items |-> reactionSnapshot.items[i].key]]]
  /\ UNCHANGED <<now, ticks, opsLeft, pc, op, nonNotifyVars, apiVars, notifyVars>>

\* What listPostReactionSnapshot is called with: (site, post, actorToken),
\* the token being what resolveReactorToken returned
ListInputs ==
  { <<1, "a", "aaaaaaaaaaaaaaaaaaaa">>, <<1, "a", "bbbbbbbbbbbbbbbbbbbb">>,
    <<1, "b", "aaaaaaaaaaaaaaaaaaaa">>, <<1, "a", "">> }

RowsOfKey(table, site, post, key) ==
  {t \in DOMAIN table : t[1] = site /\ t[2] = post /\ t[3] = key /\ table[t] > 0}

\* SELECT reaction_key, COUNT(*) AS total ... GROUP BY reaction_key, put in
\* countsMap under the sanitized key
ReactionCounts(table, site, post) ==
  LET keys == {k \in StoredKeys :
                 RowsOfKey(table, site, post, k) # {} /\ sanitizeReactionKey(k) # ""}
  IN [k \in keys |-> Max(ReactionCount(table, site, post, k), 0)]

\* A SELECT of the keys with a row of any actor
SelectedOfAnyActor(table, site, post, token) ==
  {sanitizeReactionKey(k) : k \in {k \in StoredKeys : RowsOfKey(table, site, post, k) # {}}}

\* SELECT reaction_key ... WHERE site_id = ? AND post_slug = ? AND
\* actor_token = ?, put in selected under the sanitized key
SelectedOf(table, site, post, token) ==
  {sanitizeReactionKey(k) :
     k \in {k \in StoredKeys : \E t \in RowsOfKey(table, site, post, k) : t[4] = token}} \ {""}

\* listPostReactionSnapshot up to its first SELECT
listPostReactionSnapshotBegin(h, in) ==
  /\ Free(h)
  /\ opsLeft > 0
  /\ opsLeft' = opsLeft - 1
  /\ op' = [op EXCEPT ![h] =
       [kind |-> "list", site |-> in[1], post |-> in[2], actorToken |-> in[3],
        countsMap |-> << >>, atCounts |-> reactions, atSelected |-> reactions]]
  /\ ret' = [ret EXCEPT ![h] = NoRet]
  /\ pc' = [pc EXCEPT ![h] = "sn_counts"]
  /\ UNCHANGED <<now, ticks, nonNotifyVars, apiVars, notifyVars>>

\* The counts arrive; without a token the snapshot is built from them
\* (atCounts and atSelected are ghosts: the table as the statements saw it)
listPostReactionSnapshotCounts(h) ==
  /\ pc[h] = "sn_counts"
  /\ LET countsMap == ReactionCounts(reactions, op[h].site, op[h].post)
     IN /\ op' = [op EXCEPT ![h].countsMap = countsMap, ![h].atCounts = reactions,
                             ![h].atSelected = reactions]
        /\ IF sanitizeActorToken(op[h].actorToken) = ""
             THEN /\ ret' = [ret EXCEPT ![h] = buildReactionSnapshot(countsMap, {})]
                  /\ pc' = [pc EXCEPT ![h] = "done"]
             ELSE /\ ret' = ret
                  /\ pc' = [pc EXCEPT ![h] = "sn_selected"]
  /\ UNCHANGED <<now, ticks, opsLeft, nonNotifyVars, apiVars, notifyVars>>

\* The actor's keys arrive and the snapshot is built
listPostReactionSnapshotSelected(h) ==
  /\ pc[h] = "sn_selected"
  /\ op' = [op EXCEPT ![h].atSelected = reactions]
  /\ ret' = [ret EXCEPT ![h] =
       buildReactionSnapshot(op[h].countsMap,
         SelectedOf(reactions, op[h].site, op[h].post,
                    sanitizeActorToken(op[h].actorToken)))]
  /\ pc' = [pc EXCEPT ![h] = "done"]
  /\ UNCHANGED <<now, ticks, opsLeft, nonNotifyVars, apiVars, notifyVars>>

----------------------------------------------------------------------------
(* Reactor identity: deriveIpActorToken, resolveReactorToken *)

\* The value of the stublogs_reactor cookie a request carries: none, a
\* token in lower or upper case, one that is no token, and the tokens the
\* server set on the first touch of ua1 from either address
ReactorCookies ==
  {"", "aaaaaaaaaaaaaaaaaaaa", "AAAAAAAAAAAAAAAAAAAA", "xyz"}
    \cup { sha256Hex(IpTokenInput(ip, "ua1", "secret1")) : ip \in ClientIps \ {""} }

ResolveRequests == ClientIps \X UserAgents \X ReactorCookies

\* An identity that takes a fresh random token on every request
deriveIpActorTokenRandom(ip, ua, secret, random) == random

\* An identity that is the digest of address, user agent and secret also
\* when there is no address
deriveIpActorTokenDigest(ip, ua, secret, random) ==
  sanitizeActorToken(sha256Hex(IpTokenInput(ip, ua, secret)))

\* deriveIpActorToken calls randomHex(16): on its early return for a missing
\* address, and when the digest is no token
DrawsRandom(ip, ua, secret) ==
  ip = "" \/ sanitizeActorToken(sha256Hex(IpTokenInput(ip, ua, secret))) = ""

\* deriveIpActorToken: a random token without an address, else the digest
\* of address, user agent and secret (random when that is no token)
deriveIpActorToken(ip, ua, secret, random) ==
  IF ip = "" THEN random
  ELSE IF sanitizeActorToken(sha256Hex(IpTokenInput(ip, ua, secret))) # ""
    THEN sanitizeActorToken(sha256Hex(IpTokenInput(ip, ua, secret)))
    ELSE random

ActorResult(token, shouldSetCookie) ==
  [kind |-> "actor", token |-> token, shouldSetCookie |-> shouldSetCookie]

\* A resolver that sets the cookie on every response
ShouldSetCookieAlways(existing) == TRUE

\* resolveReactorToken: shouldSetCookie of its three returns
ShouldSetCookie(existing) == existing = ""

\* The Set-Cookie value of the response of POST /api/reactions ("" for none):
\* if (reactor.shouldSetCookie) response = withCookie(response, ...)
ReactorCookieSet(reactor) == IF reactor.shouldSetCookie THEN reactor.token ELSE ""

\* resolveReactorToken up to the await of deriveIpActorToken: the cookie is
\* parsed and sanitized, the headers and the secret are read
resolveReactorTokenBegin(h, request) ==
  /\ Free(h)
  /\ opsLeft > 0
  /\ opsLeft' = opsLeft - 1
  /\ op' = [op EXCEPT ![h] =
       [kind |-> "resolve", ip |-> request[1], ua |-> request[2], cookie |-> request[3],
        existing |-> sanitizeActorToken(request[3]), secret |-> secretKey,
        ipToken |-> "", random |-> ""]]
  /\ ret' = [ret EXCEPT ![h] = NoRet]
  /\ pc' = [pc EXCEPT ![h] = "ra_ip"]
  /\ UNCHANGED <<now, ticks, nonNotifyVars, apiVars, notifyVars>>

\* The ip token arrives: without a cookie, or with the cookie equal to it,
\* it is the token; else the mix is awaited
resolveReactorTokenDerive(h, random) ==
  /\ pc[h] = "ra_ip"
  /\ LET ipToken == deriveIpActorToken(op[h].ip, op[h].ua, op[h].secret, random)
     IN /\ op' = [op EXCEPT ![h].ipToken = ipToken,
                             ![h].random = IF DrawsRandom(op[h].ip, op[h].ua, op[h].secret)
                                             THEN random ELSE ""]
        /\ IF op[h].existing # "" /\ op[h].existing # ipToken
             THEN pc' = [pc EXCEPT ![h] = "ra_mix"] /\ ret' = ret
             ELSE /\ ret' = [ret EXCEPT ![h] =
                              ActorResult(ipToken, ShouldSetCookie(op[h].existing))]
                  /\ pc' = [pc EXCEPT ![h] = "done"]
  /\ UNCHANGED <<now, ticks, opsLeft, nonNotifyVars, apiVars, notifyVars>>

\* The digest of cookie and ip token arrives
resolveReactorTokenMix(h) ==
  /\ pc[h] = "ra_mix"
  /\ LET mixed == sha256Hex(MixInput(op[h].existing, op[h].ipToken))
     IN ret' = [ret EXCEPT ![h] =
          ActorResult(IF sanitizeActorToken(mixed) # "" THEN sanitizeActorToken(mixed)
                      ELSE op[h].ipToken,
                      ShouldSetCookie(op[h].existing))]
  /\ pc' = [pc EXCEPT ![h] = "done"]
  /\ UNCHANGED <<now, ticks, opsLeft, op, nonNotifyVars, apiVars, notifyVars>>

----------------------------------------------------------------------------
(* handleApi, POST /api/comments *)

\* getSiteConfig(env, site).commentsEnabled, read from the site's config
\* file (not written by the modelled requests)
CommentsEnabled(site) == site = 1

\* sanitizeCommentAuthor, sanitizeCommentContent on the texts the model feeds
TrimText(v) == IF v = " " THEN "" ELSE v

CommentRequests ==
  { [slug |-> "alice", postSlug |-> "a", authorName |-> "Al", content |-> "hi"],
    [slug |-> "alice", postSlug |-> " A", authorName |-> "Al", content |-> "hi"],
    [slug |-> "alice", postSlug |-> "", authorName |-> "Al", content |-> "hi"],
    [slug |-> "alice", postSlug |-> "a", authorName |-> " ", content |-> "hi"],
    [slug |-> "alice", postSlug |-> "zz", authorName |-> "Al", content |-> "hi"],
    [slug |-> "bob", postSlug |-> "a", authorName |-> "Al", content |-> "hi"] }

\* The comment request as the handler holds it (status 0: no response yet;
\* commentId 0: nothing created).  found is what getPostMeta returned.
NewCommentRequest(r, id) ==
  [kind |-> "comment", id |-> id, site |-> SiteOfSlug(r.slug),
   postSlug |-> TrimLower(r.postSlug), authorName |-> TrimText(r.authorName),
   content |-> TrimText(r.content), status |-> 0, commentId |-> 0]

\* AUTOINCREMENT of table comments (the model deletes no comment)
NextCommentId == Cardinality(comments) + 1

\* What a DELETE leaves of a row: AUTOINCREMENT never gives its id again,
\* and no SELECT finds it
DeletedComment(id) == [id |-> id, siteId |-> 0, postSlug |-> ""]

\* INSERT INTO comments (site_id, post_slug, ...) VALUES (...)
CommentInsert(table, id, site, postSlug) ==
  table \cup {[id |-> id, siteId |-> site, postSlug |-> postSlug]}

\* getSiteBySlug, getSiteConfig, then consumeRateLimit up to its SELECT
commentRequestBegin(h, r, scheduled) ==
  /\ Free(h)
  /\ opsLeft > 0
  /\ opsLeft' = opsLeft - 1
  /\ IF SiteOfSlug(r.slug) = 0 \/ ~CommentsEnabled(SiteOfSlug(r.slug))
       THEN /\ ~scheduled
            /\ req' = [req EXCEPT ![h] =
                 [NewCommentRequest(r, opsLeft) EXCEPT
                    !.status = IF SiteOfSlug(r.slug) = 0 THEN 404 ELSE 403]]
            /\ pc' = [pc EXCEPT ![h] = "done"]
            /\ op' = [op EXCEPT ![h] = NoOp]
            /\ UNCHANGED <<now, ticks, ret, rateVars>>
       ELSE /\ req' = [req EXCEPT ![h] = NewCommentRequest(r, opsLeft)]
            /\ consumeRateLimitCall(h, CommentRateKey, RateArgsOf(CommentRateKey), scheduled)
  /\ UNCHANGED <<reactVars, viewVars, postVars, notifyVars>>

\* The 429, readJson and the body checks, then getPostMeta
commentRequestValidate(h) ==
  /\ pc[h] = "rq_checked"
  /\ req[h].kind = "comment"
  /\ IF ~ret[h].allowed
       THEN req' = Respond(h, 429) /\ pc' = [pc EXCEPT ![h] = "done"]
     ELSE IF req[h].postSlug = "" \/ req[h].authorName = "" \/ req[h].content = ""
       THEN req' = Respond(h, 400) /\ pc' = [pc EXCEPT ![h] = "done"]
     ELSE IF ~PostFound(posts, req[h].site, req[h].postSlug)
       THEN req' = Respond(h, 404) /\ pc' = [pc EXCEPT ![h] = "done"]
       ELSE req' = req /\ pc' = [pc EXCEPT ![h] = "cm_create"]
  /\ UNCHANGED <<now, ticks, opsLeft, op, ret, nonNotifyVars, postVars, notifyVars>>

\* An event that carries the type of the other kind of request
CommentEventAsReaction(postSlug) ==
  [eventType |-> "reaction", postSlug |-> postSlug, reactionKey |-> ""]

\* The event POST /api/comments passes to queueSiteNotificationEvent
CommentEvent(postSlug) ==
  [eventType |-> "comment", postSlug |-> postSlug, reactionKey |-> ""]

\* await createComment(...), then queueSiteNotificationEvent(...) and the
\* 201.  storeFails: the INSERT is rejected and the handler throws, which
\* the fetch handler answers with a 500.
commentRequestCreate(h, storeFails) ==
  /\ pc[h] = "cm_create"
  /\ IF storeFails
       THEN /\ req' = Respond(h, 500)
            /\ UNCHANGED <<comments, tasks>>
       ELSE /\ comments' = CommentInsert(comments, NextCommentId, req[h].site, req[h].postSlug)
            /\ tasks' = Append(tasks,
                 NewTask(req[h].site, CommentEvent(req[h].postSlug),
                         [kind |-> "comment", id |-> req[h].id, actor |-> "",
                          active |-> FALSE]))
            /\ req' = [req EXCEPT ![h].status = 201, ![h].commentId = NextCommentId]
  /\ pc' = [pc EXCEPT ![h] = "done"]
  /\ UNCHANGED <<now, ticks, opsLeft, op, ret, nonNotifyVars, posts, site_notifications,
                 olderNotifications, site_telegram_settings, secretKey, schemaVars, ngcTasks>>

----------------------------------------------------------------------------
(* createComment, deleteComment *)

\* The ids deleteComment is called with: of a row of each site, and of no row
CommentIds == {1, 2, 3}

\* A delete that selects the row by its id alone
CommentDeleteById(table, id, site) ==
  {IF c.id = id /\ c.siteId # 0 THEN DeletedComment(c.id) ELSE c : c \in table}

\* DELETE FROM comments WHERE id = ? AND site_id = ?
CommentDelete(table, id, site) ==
  {IF c.id = id /\ c.siteId = site THEN DeletedComment(c.id) ELSE c : c \in table}

\* createComment(env, siteId, postSlug, ...): the INSERT, and the comment
\* with result.meta.last_row_id as its id
createComment(h, site, post) ==
  /\ Free(h)
  /\ opsLeft > 0
  /\ opsLeft' = opsLeft - 1
  /\ comments' = CommentInsert(comments, NextCommentId, site, post)
  /\ op' = [op EXCEPT ![h] = [kind |-> "create", site |-> site, post |-> post]]
  /\ ret' = [ret EXCEPT ![h] = [kind |-> "comment", id |-> NextCommentId, postSlug |-> post]]
  /\ pc' = [pc EXCEPT ![h] = "done"]
  /\ UNCHANGED <<now, ticks, nonNotifyVars, req, posts, notifyVars>>

\* deleteComment(env, siteId, commentId): the DELETE, and changes > 0
deleteComment(h, site, id) ==
  /\ Free(h)
  /\ opsLeft > 0
  /\ opsLeft' = opsLeft - 1
  /\ comments' = CommentDelete(comments, id, site)
  /\ op' = [op EXCEPT ![h] = [kind |-> "delete_comment", site |-> site, id |-> id]]
  /\ ret' = [ret EXCEPT ![h] =
       [kind |-> "deleted", changed |-> CommentDelete(comments, id, site) # comments]]
  /\ pc' = [pc EXCEPT ![h] = "done"]
  /\ UNCHANGED <<now, ticks, nonNotifyVars, req, posts, notifyVars>>

----------------------------------------------------------------------------
(* handleApi, POST /api/view; listPageViewCounts *)

\* The view requests of the model, all from one address: a post, the same
\* post written differently, the home page, a post that does not exist
ViewRequests ==
  { [slug |-> "alice", resourceType |-> "post", resourceKey |-> "hello-world"],
    [slug |-> "alice", resourceType |-> "post", resourceKey |-> " Hello-World"],
    [slug |-> "alice", resourceType |-> "HOME", resourceKey |-> ""],
    [slug |-> "alice", resourceType |-> "post", resourceKey |-> "zz"] }

\* The view request as the handler holds it (status 0: no response yet)
NewViewRequest(r) ==
  LET type == normalizeViewResourceType(r.resourceType)
  IN [kind |-> "view", slug |-> r.slug, site |-> SiteOfSlug(r.slug),
      resourceType |-> type,
      resourceKey |-> normalizeViewResourceKey(type, r.resourceKey),
      status |-> 0, throttled |-> FALSE, count |-> 0]

\* A handler that counts the view whatever the limiter answered
AfterViewRateCounting(allowed) == "vw_count"

\* if (!viewRate.allowed) { ... listPageViewCounts ... } else incrementPageViewCount
AfterViewRate(allowed) == IF allowed THEN "vw_count" ELSE "vw_list"

\* listPageViewCounts(env, site.id, resourceType, [resourceKey]) and
\* Math.max(Number(viewMap.get(resourceKey) || 0), 0)
CurrentCount(table, k) == IF table[k].exists THEN Max(table[k].viewCount, 0) ELSE 0

ViewKeyOf(r) == <<r.site, r.resourceType, r.resourceKey>>

\* getSiteBySlug, readJson, the key and getPostMeta, then consumeRateLimit up
\* to its SELECT
viewRequestBegin(h, r, scheduled) ==
  /\ Free(h)
  /\ opsLeft > 0
  /\ opsLeft' = opsLeft - 1
  /\ LET q == NewViewRequest(r)
         status == IF q.site = 0 THEN 404
                   ELSE IF q.resourceKey = "" THEN 400
                   ELSE IF q.resourceType = "post" /\ <<q.site, q.resourceKey>> \notin posts
                     THEN 404
                   ELSE 0
     IN IF status # 0
          THEN /\ ~scheduled
               /\ req' = [req EXCEPT ![h] = [q EXCEPT !.status = status]]
               /\ pc' = [pc EXCEPT ![h] = "done"]
               /\ op' = [op EXCEPT ![h] = NoOp]
               /\ ret' = [ret EXCEPT ![h] = NoRet]
               /\ UNCHANGED <<now, ticks, rateVars>>
          ELSE /\ req' = [req EXCEPT ![h] = q]
               /\ LET k == ViewRateKey(q.slug, q.resourceType, q.resourceKey)
                  IN consumeRateLimitCall(h, k, RateArgsOf(k), scheduled)
  /\ UNCHANGED <<reactVars, viewVars, postVars, notifyVars>>

\* if (!viewRate.allowed)
viewRequestChecked(h) ==
  /\ pc[h] = "rq_checked"
  /\ req[h].kind = "view"
  /\ pc' = [pc EXCEPT ![h] = AfterViewRate(ret[h].allowed)]
  /\ UNCHANGED <<now, ticks, opsLeft, op, ret, nonNotifyVars, apiVars, notifyVars>>

\* The throttled answer: the count as it is stored, with a 200
viewRequestList(h) ==
  /\ pc[h] = "vw_list"
  /\ req' = [req EXCEPT ![h].status = 200, ![h].throttled = TRUE,
                        ![h].count = CurrentCount(page_views, ViewKeyOf(req[h]))]
  /\ pc' = [pc EXCEPT ![h] = "done"]
  /\ UNCHANGED <<now, ticks, opsLeft, op, ret, nonNotifyVars, postVars, notifyVars>>

\* incrementPageViewCount(env, site.id, resourceType, resourceKey) up to its INSERT
viewRequestCount(h) ==
  /\ pc[h] = "vw_count"
  /\ incrementPageViewCountCall(h, ViewKeyOf(req[h]))
  /\ UNCHANGED <<now, ticks, opsLeft, page_views, nonViewVars>>

\* The INSERT is rejected by the store: incrementPageViewCount throws, which
\* the fetch handler answers with a 500
viewRequestStoreFails(h) ==
  /\ pc[h] = "pv_upsert"
  /\ req[h].kind = "view"
  /\ req' = Respond(h, 500)
  /\ pc' = [pc EXCEPT ![h] = "done"]
  /\ UNCHANGED <<now, ticks, opsLeft, op, ret, nonNotifyVars, postVars, notifyVars>>

\* The answer with the new count
viewRequestRespond(h) ==
  /\ pc[h] = "vw_counted"
  /\ req' = [req EXCEPT ![h].status = 200, ![h].count = ret[h].count]
  /\ pc' = [pc EXCEPT ![h] = "done"]
  /\ UNCHANGED <<now, ticks, opsLeft, op, ret, nonNotifyVars, postVars, notifyVars>>

\* listPageViewCounts(env, siteId, resourceType, resourceKeys): the map of
\* the stored counts of the keys, each Math.max(Number(viewCount || 0), 0)
ViewCountMap(table, site, type, keys) ==
  LET normalizedType == normalizeViewResourceType(type)
      uniqueKeys == {normalizeViewResourceKey(normalizedType, key) : key \in keys} \ {""}
  IN [key \in {x \in uniqueKeys : /\ <<site, normalizedType, x>> \in DOMAIN table
                                   /\ table[<<site, normalizedType, x>>].exists} |->
        Max(table[<<site, normalizedType, key>>].viewCount, 0)]

\* The pages call listPageViewCounts on their own (renderSiteHome, the post page)
listPageViewCounts(h, site, type, keys) ==
  /\ Free(h)
  /\ opsLeft > 0
  /\ opsLeft' = opsLeft - 1
  /\ req' = [req EXCEPT ![h] = NoReq]
  /\ op' = [op EXCEPT ![h] = [kind |-> "counts", site |-> site, type |-> type, keys |-> keys]]
  /\ ret' = [ret EXCEPT ![h] =
       [kind |-> "counts", counts |-> ViewCountMap(page_views, site, type, keys)]]
  /\ pc' = [pc EXCEPT ![h] = "done"]
  /\ UNCHANGED <<now, ticks, nonNotifyVars, postVars, notifyVars>>

----------------------------------------------------------------------------
(* handleApi, POST /api/login; verifyPassword *)

\* The stored hash of a password (the salt, the secret and the cost
\* parameters of a site do not change in the model)
PasswordHash(password) == "hash(" \o password \o ")"

\* sites.admin_secret_hash of the site of a slug
AdminSecretHash(slug) == IF slug = "alice" THEN PasswordHash("pw-alice") ELSE ""

\* verifyPassword(password, stored, env)
verifyPassword(password, stored) == stored # "" /\ PasswordHash(password) = stored

\* The login requests of the model, all from one address on the host of
\* alice: the right password, a wrong one, and a body naming another slug
LoginRequests ==
  { [host |-> "alice", slug |-> "alice", password |-> "pw-alice"],
    [host |-> "alice", slug |-> "alice", password |-> "guess"],
    [host |-> "alice", slug |-> " Alice", password |-> "pw-alice"],
    [host |-> "alice", slug |-> "bob", password |-> "pw-alice"] }

\* The login request as the handler holds it (status 0: no response yet);
\* cleared is a ghost: clearRateLimit has returned.  Two more ghosts tell
\* what went before the request: allowedBefore, the logins of the client
\* that consumeRateLimit had allowed when it arrived, and failedBefore, that
\* all of them had been answered by then and none had cleared the key
NewLoginRequest(r) ==
  [kind |-> "login", host |-> r.host,
   slug |-> IF r.slug = " Alice" THEN "alice" ELSE r.slug,
   password |-> r.password, status |-> 0, cleared |-> FALSE,
   allowedBefore |-> 0, failedBefore |-> FALSE]

\* consumeRateLimit on `${clientIp}:${hostSlug}` up to its SELECT
loginRequestBegin(h, r, scheduled) ==
  /\ Free(h)
  /\ opsLeft > 0
  /\ opsLeft' = opsLeft - 1
  /\ req' = [req EXCEPT ![h] =
               [NewLoginRequest(r) EXCEPT
                  !.allowedBefore = rlGhost[LoginRateKey].granted,
                  !.failedBefore = /\ ~rlGhost[LoginRateKey].cleared
                                   /\ \A g \in Handlers : Idle(g)]]
  /\ consumeRateLimitCall(h, LoginRateKey, RateArgsOf(LoginRateKey), scheduled)
  /\ UNCHANGED <<reactVars, viewVars, postVars, notifyVars>>

\* The 429, readJson, the slug check, getSiteBySlug and verifyPassword
loginRequestVerify(h) ==
  /\ pc[h] = "rq_checked"
  /\ req[h].kind = "login"
  /\ IF ~ret[h].allowed
       THEN req' = Respond(h, 429) /\ pc' = [pc EXCEPT ![h] = "done"]
     ELSE IF req[h].slug # req[h].host
       THEN req' = Respond(h, 400) /\ pc' = [pc EXCEPT ![h] = "done"]
     ELSE IF SiteOfSlug(req[h].slug) = 0
       THEN req' = Respond(h, 404) /\ pc' = [pc EXCEPT ![h] = "done"]
     ELSE IF ~verifyPassword(req[h].password, AdminSecretHash(req[h].slug))
       THEN req' = Respond(h, 401) /\ pc' = [pc EXCEPT ![h] = "done"]
       ELSE req' = req /\ pc' = [pc EXCEPT ![h] = "lg_clear"]
  /\ UNCHANGED <<now, ticks, opsLeft, op, ret, nonNotifyVars, postVars, notifyVars>>

\* await clearRateLimit(env, rateKey)
loginRequestClear(h) ==
  /\ pc[h] = "lg_clear"
  /\ rate_limits' = RateClear(rate_limits, LoginRateKey)
  /\ rlGhost' = [rlGhost EXCEPT ![LoginRateKey].cleared = TRUE]
  /\ req' = [req EXCEPT ![h].cleared = TRUE]
  /\ pc' = [pc EXCEPT ![h] = "lg_respond"]
  /\ UNCHANGED <<now, ticks, opsLeft, op, ret, gcPending, reactVars, viewVars, postVars,
                 notifyVars>>

\* createSessionToken and the 200 with the session cookie
loginRequestRespond(h) ==
  /\ pc[h] = "lg_respond"
  /\ req' = Respond(h, 200)
  /\ pc' = [pc EXCEPT ![h] = "done"]
  /\ UNCHANGED <<now, ticks, opsLeft, op, ret, nonNotifyVars, postVars, notifyVars>>

----------------------------------------------------------------------------
(* listPostComments, parsePositiveInt *)

\* A page value by what Number() and parseInt make of it: not a number, or
\* an integer
NotANumber == [num |-> FALSE, n |-> 0]
Num(n) == [num |-> TRUE, n |-> n]

\* The page values of the model: absent or text, zero, negative, the first
\* pages, the largest page, and one above it
PageValues == {NotANumber} \cup {Num(n) : n \in {-3, 0, 1, 2, 3, MaxPage, MaxPage + 1}}

Min(a, b) == IF a <= b THEN a ELSE b

\* parsePositiveInt(value, fallback, min, max)
parsePositiveInt(value, fallback, min, max) ==
  IF ~value.num \/ value.n < min THEN Num(fallback)
  ELSE IF value.n > max THEN Num(max) ELSE value

\* Math.min(Math.max(Number(pageSize) || COMMENTS_PAGE_SIZE, 1), 80)
SafePageSize(pageSize) ==
  Min(Max(IF pageSize.num /\ pageSize.n # 0 THEN pageSize.n ELSE COMMENTS_PAGE_SIZE, 1),
      MaxPageSize)

\* Math.max(Number(page) || 1, 1)
SafePage(page) == Max(IF page.num /\ page.n # 0 THEN page.n ELSE 1, 1)

\* Math.max(1, Math.ceil(total / safePageSize))
TotalPages(total, safePageSize) == Max(1, (total + safePageSize - 1) \div safePageSize)

\* A page that is not clamped to the last one
BoundedPageUnclamped(safePage, totalPages) == safePage

\* Math.min(safePage, totalPages)
BoundedPage(safePage, totalPages) == Min(safePage, totalPages)

CommentsOf(table, site, post) == {c \in table : c.siteId = site /\ c.postSlug = post}

\* ORDER BY created_at DESC LIMIT ? OFFSET ?: the ids of the rows of the page,
\* newest first (a later comment has the larger id)
RECURSIVE NewestFirst(_)
NewestFirst(ids) ==
  IF ids = {} THEN << >>
  ELSE LET m == CHOOSE x \in ids : \A y \in ids : y <= x
       IN << m >> \o NewestFirst(ids \ {m})

CommentsPage(table, site, post, limit, offset) ==
  LET all == NewestFirst({c.id : c \in CommentsOf(table, site, post)})
  IN SubSeq(all, offset + 1, Min(Len(all), offset + limit))

\* What listPostComments is called with: GET /api/comments parses the page
\* of the query with parsePositiveInt; a direct call passes the value
ListCommentsInputs ==
  {<<1, "a", page, parsed>> : page \in PageValues, parsed \in BOOLEAN}
    \cup {<<1, "b", Num(2), TRUE>>}

\* listPostComments up to its first SELECT
listPostCommentsBegin(h, in) ==
  /\ Free(h)
  /\ opsLeft > 0
  /\ opsLeft' = opsLeft - 1
  /\ LET page == IF in[4] THEN parsePositiveInt(in[3], 1, 1, MaxPage) ELSE in[3]
     IN op' = [op EXCEPT ![h] =
          [kind |-> "comments", site |-> in[1], post |-> in[2], given |-> in[3],
           page |-> page, safePageSize |-> SafePageSize(Num(COMMENTS_PAGE_SIZE)),
           safePage |-> SafePage(page), total |-> 0, totalPages |-> 0,
           boundedPage |-> 0, offset |-> 0]]
  /\ ret' = [ret EXCEPT ![h] = NoRet]
  /\ pc' = [pc EXCEPT ![h] = "lc_count"]
  /\ UNCHANGED <<now, ticks, nonNotifyVars, apiVars, notifyVars>>

\* SELECT COUNT(*) AS total ...; total, totalPages, boundedPage and offset
listPostCommentsCount(h) ==
  /\ pc[h] = "lc_count"
  /\ LET total == Max(Cardinality(CommentsOf(comments, op[h].site, op[h].post)), 0)
         totalPages == TotalPages(total, op[h].safePageSize)
         boundedPage == BoundedPage(op[h].safePage, totalPages)
     IN op' = [op EXCEPT ![h].total = total, ![h].totalPages = totalPages,
                         ![h].boundedPage = boundedPage,
                         ![h].offset = (boundedPage - 1) * op[h].safePageSize]
  /\ pc' = [pc EXCEPT ![h] = "lc_rows"]
  /\ UNCHANGED <<now, ticks, opsLeft, ret, nonNotifyVars, apiVars, notifyVars>>

\* SELECT ... ORDER BY created_at DESC LIMIT ? OFFSET ?, and the return
listPostCommentsRows(h) ==
  /\ pc[h] = "lc_rows"
  /\ ret' = [ret EXCEPT ![h] =
       [kind |-> "comments",
        comments |-> CommentsPage(comments, op[h].site, op[h].post,
                                  op[h].safePageSize, op[h].offset),
        total |-> op[h].total, page |-> op[h].boundedPage,
        totalPages |-> op[h].totalPages, pageSize |-> op[h].safePageSize]]
  /\ pc' = [pc EXCEPT ![h] = "done"]
  /\ UNCHANGED <<now, ticks, opsLeft, op, nonNotifyVars, apiVars, notifyVars>>

----------------------------------------------------------------------------
(* handleApi, POST /api/posts *)

\* What the save requests carry: the host's site slug, the body's postSlug
\* and previousSlug, and whether the session is the owner's
PostSaveRequests ==
  { [slug |-> "alice", postSlug |-> "b", previousSlug |-> "a", authed |-> TRUE],
    [slug |-> "alice", postSlug |-> "a", previousSlug |-> "", authed |-> TRUE],
    [slug |-> "alice", postSlug |-> "b", previousSlug |-> "zz", authed |-> TRUE],
    [slug |-> "alice", postSlug |-> "b", previousSlug |-> "a", authed |-> FALSE] }

\* The save request as the handler holds it (isRenaming: previousSlug &&
\* previousSlug !== postSlug)
NewPostSave(r, id) ==
  [kind |-> "post", id |-> id, site |-> SiteOfSlug(r.slug),
   postSlug |-> TrimLower(r.postSlug), previousSlug |-> TrimLower(r.previousSlug),
   isRenaming |-> TrimLower(r.previousSlug) # ""
                    /\ TrimLower(r.previousSlug) # TrimLower(r.postSlug),
   status |-> 0]

\* DELETE FROM posts WHERE site_id = ? AND post_slug = ?
PostMetaDelete(table, site, slug) == table \ {<<site, slug>>}

\* INSERT INTO posts ... ON CONFLICT(site_id, post_slug) DO UPDATE
PostMetaUpsert(table, site, slug) == table \cup {<<site, slug>>}

\* UPDATE comments SET post_slug = ? WHERE site_id = ? AND post_slug = ?
CommentMove(table, site, from, to) ==
  {IF c.siteId = site /\ c.postSlug = from THEN [c EXCEPT !.postSlug = to] ELSE c :
     c \in table}

\* getSiteBySlug, isSiteAuthenticated, readJson and the checks of the body
postSaveBegin(h, r) ==
  /\ Free(h)
  /\ opsLeft > 0
  /\ opsLeft' = opsLeft - 1
  /\ req' = [req EXCEPT ![h] =
       [NewPostSave(r, opsLeft) EXCEPT
          !.status = IF SiteOfSlug(r.slug) = 0 THEN 404
                     ELSE IF ~r.authed THEN 401 ELSE 0]]
  /\ pc' = [pc EXCEPT ![h] =
       IF SiteOfSlug(r.slug) = 0 \/ ~r.authed THEN "done"
       ELSE IF NewPostSave(r, opsLeft).isRenaming THEN "ps_previous" ELSE "ps_target"]
  /\ op' = [op EXCEPT ![h] = NoOp]
  /\ ret' = [ret EXCEPT ![h] = NoRet]
  /\ UNCHANGED <<now, ticks, nonNotifyVars, postVars, notifyVars>>

\* previousPost = await getPostMeta(env, site.id, previousSlug, true)
postSavePrevious(h) ==
  /\ pc[h] = "ps_previous"
  /\ IF <<req[h].site, req[h].previousSlug>> \notin posts
       THEN req' = Respond(h, 404) /\ pc' = [pc EXCEPT ![h] = "done"]
       ELSE req' = req /\ pc' = [pc EXCEPT ![h] = "ps_target"]
  /\ UNCHANGED <<now, ticks, opsLeft, op, ret, nonNotifyVars, postVars, notifyVars>>

\* existingPost = await getPostMeta(env, site.id, postSlug, true)
postSaveTarget(h) ==
  /\ pc[h] = "ps_target"
  /\ IF <<req[h].site, req[h].postSlug>> \in posts /\ req[h].isRenaming
       THEN req' = Respond(h, 409) /\ pc' = [pc EXCEPT ![h] = "done"]
       ELSE req' = req /\ pc' = [pc EXCEPT ![h] = "ps_files"]
  /\ UNCHANGED <<now, ticks, opsLeft, op, ret, nonNotifyVars, postVars, notifyVars>>

\* The step that follows a statement of the save: the catch answers a
\* failure with a 502
AfterSaveStep(h, fails, next) ==
  /\ req' = IF fails THEN Respond(h, 502) ELSE req
  /\ pc' = [pc EXCEPT ![h] = IF fails THEN "done" ELSE next]

\* githubWriteFile of the new path and, on a rename, githubDeleteFile of
\* the old one (the repository is not part of the model)
postSaveFiles(h, fails) ==
  /\ pc[h] = "ps_files"
  /\ AfterSaveStep(h, fails, IF req[h].isRenaming THEN "ps_delete_meta" ELSE "ps_upsert")
  /\ UNCHANGED <<now, ticks, opsLeft, op, ret, nonNotifyVars, postVars, notifyVars>>

\* await deletePostMeta(env, site.id, previousSlug)
postSaveDeleteMeta(h, fails) ==
  /\ pc[h] = "ps_delete_meta"
  /\ posts' = IF fails THEN posts ELSE PostMetaDelete(posts, req[h].site, req[h].previousSlug)
  /\ AfterSaveStep(h, fails, "ps_move_comments")
  /\ UNCHANGED <<now, ticks, opsLeft, op, ret, nonNotifyVars, comments, notifyVars>>

\* await moveCommentsToPost(env, site.id, previousSlug, postSlug)
postSaveMoveComments(h, fails) ==
  /\ pc[h] = "ps_move_comments"
  /\ comments' = IF fails THEN comments
                 ELSE CommentMove(comments, req[h].site, req[h].previousSlug, req[h].postSlug)
  /\ AfterSaveStep(h, fails, "ps_move_reactions")
  /\ UNCHANGED <<now, ticks, opsLeft, op, ret, nonNotifyVars, posts, notifyVars>>

\* await moveReactionsToPost(env, site.id, previousSlug, postSlug)
postSaveMoveReactions(h, fails) ==
  /\ pc[h] = "ps_move_reactions"
  /\ LET conflict == ReactionMoveConflict(reactions, req[h].site, req[h].previousSlug,
                                          req[h].postSlug)
     IN /\ conflict => fails
        /\ reactions' = IF fails THEN reactions
                        ELSE ReactionMove(reactions, req[h].site, req[h].previousSlug,
                                          req[h].postSlug)
  /\ AfterSaveStep(h, fails, "ps_upsert")
  /\ UNCHANGED <<now, ticks, opsLeft, op, ret, rateVars, rxGhost, viewVars, postVars,
                 notifyVars>>

\* await upsertPostMeta(env, site.id, postSlug, ...), then the 200
postSaveUpsertMeta(h, fails) ==
  /\ pc[h] = "ps_upsert"
  /\ posts' = IF fails THEN posts ELSE PostMetaUpsert(posts, req[h].site, req[h].postSlug)
  /\ req' = Respond(h, IF fails THEN 502 ELSE 200)
  /\ pc' = [pc EXCEPT ![h] = "done"]
  /\ UNCHANGED <<now, ticks, opsLeft, op, ret, nonNotifyVars, comments, notifyVars>>

----------------------------------------------------------------------------
(* sortSitePagesForNav, renderSiteModeNav *)

\* The pages of a site as listSitePages returns them (postSlug, updatedAt):
\* two of them were updated at the same time, and the home page is neither
\* the newest nor the oldest
SitePages ==
  { [postSlug |-> "home", title |-> "Home", updatedAt |-> "2026-02-18T00:00:00.000Z"],
    [postSlug |-> "now", title |-> "Now", updatedAt |-> "2026-02-17T00:00:00.000Z"],
    [postSlug |-> "projects", title |-> "Projects", updatedAt |-> "2026-02-19T00:00:00.000Z"],
    [postSlug |-> "misc", title |-> "Misc", updatedAt |-> "2026-02-22T00:00:00.000Z"],
    [postSlug |-> "about", title |-> "About", updatedAt |-> "2026-02-22T00:00:00.000Z"],
    [postSlug |-> "links", title |-> "Links", updatedAt |-> ""] }

\* The arrays passed in: pages of the site in any order
NavInputs ==
  UNION {{pages \in [1..n -> SitePages] :
            \A i, j \in 1..n : i # j => pages[i] # pages[j]} : n \in 0..MaxNavPages}

\* String(postSlug || "").toLowerCase()
LowerSlug(v) ==
  CASE v = "Home" -> "home"
    [] v = "Now" -> "now"
    [] OTHER -> v

\* Date.parse(updatedAt || createdAt || "") || 0, in days of February 2026
DateParse(v) ==
  CASE v = "2026-02-17T00:00:00.000Z" -> 17
    [] v = "2026-02-18T00:00:00.000Z" -> 18
    [] v = "2026-02-19T00:00:00.000Z" -> 19
    [] v = "2026-02-22T00:00:00.000Z" -> 22
    [] OTHER -> 0

\* SITE_PAGE_NAV_PRIORITY[slug], 99 for a slug it does not have
NavPriority(slug) ==
  CASE slug = "home" -> 0
    [] slug = "now" -> 1
    [] slug = "projects" -> 2
    [] OTHER -> 99

\* leftSlug.localeCompare(rightSlug) on the slugs of the model
SlugsInOrder == << "about", "home", "links", "misc", "now", "projects" >>

SlugIndex(slug) == CHOOSE i \in DOMAIN SlugsInOrder : SlugsInOrder[i] = slug

localeCompare(left, right) ==
  IF SlugIndex(left) < SlugIndex(right) THEN -1
  ELSE IF SlugIndex(left) > SlugIndex(right) THEN 1 ELSE 0

\* A comparator that leaves the priorities out
NavCompareByDate(left, right) ==
  LET leftUpdated == DateParse(left.updatedAt)
      rightUpdated == DateParse(right.updatedAt)
  IN IF leftUpdated # rightUpdated THEN rightUpdated - leftUpdated
     ELSE localeCompare(LowerSlug(left.postSlug), LowerSlug(right.postSlug))

\* The comparator of sortSitePagesForNav: negative when left comes first
NavCompare(left, right) ==
  LET leftSlug == LowerSlug(left.postSlug)
      rightSlug == LowerSlug(right.postSlug)
      leftUpdated == DateParse(left.updatedAt)
      rightUpdated == DateParse(right.updatedAt)
  IN IF NavPriority(leftSlug) # NavPriority(rightSlug)
       THEN NavPriority(leftSlug) - NavPriority(rightSlug)
     ELSE IF leftUpdated # rightUpdated THEN rightUpdated - leftUpdated
     ELSE localeCompare(leftSlug, rightSlug)

\* pages.sort(comparator): the sort is stable
RECURSIVE InsertPage(_, _)
InsertPage(page, sorted) ==
  IF sorted = << >> THEN << page >>
  ELSE IF NavCompare(page, Head(sorted)) <= 0
    THEN << page >> \o sorted
    ELSE << Head(sorted) >> \o InsertPage(page, Tail(sorted))

RECURSIVE sortSitePagesForNav(_)
sortSitePagesForNav(sitePages) ==
  IF sitePages = << >> THEN << >>
  ELSE InsertPage(Head(sitePages), sortSitePagesForNav(Tail(sitePages)))

\* The hrefs of the links of the nav element, in their order ("" without a
\* page: no nav element)
NavLinks(sitePages) ==
  LET sortedPages == sortSitePagesForNav(sitePages)
  IN IF sortedPages = << >> THEN << >>
     ELSE [i \in DOMAIN sortedPages |-> "/" \o sortedPages[i].postSlug] \o << "/" >>

\* renderPostPage: const modeNav = renderSiteModeNav(sitePages, ...)
renderSiteModeNav(h, sitePages) ==
  /\ Free(h)
  /\ opsLeft > 0
  /\ opsLeft' = opsLeft - 1
  /\ op' = [op EXCEPT ![h] = [kind |-> "nav", sitePages |-> sitePages]]
  /\ ret' = [ret EXCEPT ![h] = [kind |-> "nav", links |-> NavLinks(sitePages)]]
  /\ pc' = [pc EXCEPT ![h] = "done"]
  /\ UNCHANGED <<now, ticks, nonNotifyVars, apiVars, notifyVars>>

----------------------------------------------------------------------------
(* handleApi, DELETE /api/posts/:slug *)

\* What the delete requests carry: the host's site slug, the slug of the
\* path, and whether the session is the owner's
PostDeleteRequests ==
  { [slug |-> "alice", postSlug |-> "a", authed |-> TRUE],
    [slug |-> "alice", postSlug |-> "b", authed |-> TRUE],
    [slug |-> "alice", postSlug |-> "", authed |-> TRUE],
    [slug |-> "alice", postSlug |-> "a", authed |-> FALSE] }

\* DELETE FROM comments WHERE site_id = ? AND post_slug = ?
CommentDeleteByPost(table, site, post) ==
  {IF c.siteId = site /\ c.postSlug = post THEN DeletedComment(c.id) ELSE c : c \in table}

\* getSiteBySlug, isSiteAuthenticated, the slug of the path and getPostMeta
postDeleteBegin(h, r) ==
  /\ Free(h)
  /\ opsLeft > 0
  /\ opsLeft' = opsLeft - 1
  /\ LET site == SiteOfSlug(r.slug)
         status == IF site = 0 THEN 404
                   ELSE IF ~r.authed THEN 401
                   ELSE IF r.postSlug = "" THEN 400
                   ELSE IF <<site, r.postSlug>> \notin posts THEN 404
                   ELSE 0
     IN /\ req' = [req EXCEPT ![h] =
             [kind |-> "postdelete", site |-> site, postSlug |-> r.postSlug,
              status |-> status]]
        /\ pc' = [pc EXCEPT ![h] = IF status # 0 THEN "done" ELSE "pd_files"]
  /\ op' = [op EXCEPT ![h] = NoOp]
  /\ ret' = [ret EXCEPT ![h] = NoRet]
  /\ UNCHANGED <<now, ticks, nonNotifyVars, postVars, notifyVars>>

\* await githubDeleteFile(...) (the repository is not part of the model)
postDeleteFiles(h, fails) ==
  /\ pc[h] = "pd_files"
  /\ AfterSaveStep(h, fails, "pd_meta")
  /\ UNCHANGED <<now, ticks, opsLeft, op, ret, nonNotifyVars, postVars, notifyVars>>

\* await deletePostMeta(env, site.id, post.postSlug)
postDeleteMeta(h, fails) ==
  /\ pc[h] = "pd_meta"
  /\ posts' = IF fails THEN posts ELSE PostMetaDelete(posts, req[h].site, req[h].postSlug)
  /\ AfterSaveStep(h, fails, "pd_comments")
  /\ UNCHANGED <<now, ticks, opsLeft, op, ret, nonNotifyVars, comments, notifyVars>>

\* await deleteCommentsByPost(env, site.id, post.postSlug)
postDeleteComments(h, fails) ==
  /\ pc[h] = "pd_comments"
  /\ comments' = IF fails THEN comments
                 ELSE CommentDeleteByPost(comments, req[h].site, req[h].postSlug)
  /\ AfterSaveStep(h, fails, "pd_reactions")
  /\ UNCHANGED <<now, ticks, opsLeft, op, ret, nonNotifyVars, posts, notifyVars>>

\* await deleteReactionsByPost(env, site.id, post.postSlug), then the 200
postDeleteReactions(h, fails) ==
  /\ pc[h] = "pd_reactions"
  /\ reactions' = IF fails THEN reactions
                  ELSE ReactionDeleteByPost(reactions, req[h].site, req[h].postSlug)
  /\ req' = Respond(h, IF fails THEN 502 ELSE 200)
  /\ pc' = [pc EXCEPT ![h] = "done"]
  /\ UNCHANGED <<now, ticks, opsLeft, op, ret, rateVars, rxGhost, viewVars, postVars,
                 notifyVars>>

----------------------------------------------------------------------------
vars == <<now, ticks, opsLeft, pc, op, ret, rateVars, nonRateVars>>

NoRateGhost ==
  [win |-> NoGhostWin, overlapped |-> FALSE, cleared |-> FALSE, granted |-> 0,
   traced |-> FALSE, allowedAt |-> << >>]

\* The state after start-up: no call in flight, the given budget of calls,
\* and the given rows where the store is not empty.
InitRows(budget, rateRows, rateGhosts, settingsRow, postRows, commentRows) ==
  /\ now = 0
  /\ ticks = 0
  /\ opsLeft = budget
  /\ pc = [h \in Handlers |-> "idle"]
  /\ op = [h \in Handlers |-> NoOp]
  /\ ret = [h \in Handlers |-> NoRet]
  /\ rate_limits = rateRows
  /\ gcPending = 0
  /\ rlGhost = rateGhosts
  /\ reactions = EmptyReactions
  /\ rxGhost = [pair |-> NoPair, race |-> NoRace]
  /\ page_views = [k \in ViewKeys |-> NoViewRow]
  /\ pvGhost = [k \in ViewKeys |-> [calls |-> 0, overlapped |-> FALSE]]
  /\ req = [h \in Handlers |-> NoReq]
  /\ posts = postRows
  /\ comments = commentRows
  /\ site_notifications = {}
  /\ olderNotifications = [lo |-> 1, hi |-> OlderNotificationsAtStart]
  /\ site_telegram_settings =
       [s \in Sites |-> IF s \in SettingsSites THEN settingsRow ELSE NoSettingsRow]
  /\ secretKey = "secret1"
  /\ readyPromise = [t \in SchemaTables |-> 0]
  /\ bootstraps = << >>
  /\ tasks = << >>
  /\ ngcTasks = << >>

InitStore(budget, reactionRateRow, reactionRateGhost, settingsRow, postRows, commentRows) ==
  InitRows(budget,
           [k \in RateKeys |-> IF k = ReactionRateKey THEN reactionRateRow ELSE NoRateRow],
           [k \in RateKeys |-> IF k = ReactionRateKey THEN reactionRateGhost ELSE NoRateGhost],
           settingsRow, postRows, commentRows)

InitFrom(budget, reactionRateRow, reactionRateGhost, settingsRow, postRows) ==
  InitStore(budget, reactionRateRow, reactionRateGhost, settingsRow, postRows, {})

InitWith(budget, reactionRateRow, reactionRateGhost, settingsRow) ==
  InitFrom(budget, reactionRateRow, reactionRateGhost, settingsRow, PublishedPosts)

Init == InitWith(MaxOps, NoRateRow, NoRateGhost, NoSettingsRow)

NextRate ==
  \/ \E h \in TwoHandlers, k \in DirectRateKeys, s \in BOOLEAN :
       consumeRateLimitBegin(h, k, RateArgsOf(k), s)
  \/ \E h \in TwoHandlers : consumeRateLimitSelect(h)
  \/ \E h \in TwoHandlers : consumeRateLimitWrite(h)
  \/ rateLimitGcRun
  \/ \E h \in TwoHandlers, k \in DirectRateKeys : clearRateLimit(h, k)
  \/ \E d \in TickSteps : Tick(d)

SpecRate == Init /\ [][NextRate]_vars

NextReact ==
  \/ \E h \in TwoHandlers, in \in ToggleInputs, track \in BOOLEAN :
       togglePostReactionBegin(h, in, track)
  \/ \E h \in TwoHandlers : togglePostReactionSelect(h)
  \/ \E h \in TwoHandlers : togglePostReactionDelete(h)
  \/ \E h \in TwoHandlers : togglePostReactionInsert(h)
  \/ \E h \in TwoHandlers, site \in Sites, from \in Posts, to \in Posts :
       moveReactionsToPost(h, site, from, to)
  \/ \E h \in TwoHandlers, site \in Sites, post \in Posts :
       deleteReactionsByPost(h, site, post)

SpecReact == Init /\ [][NextReact]_vars

NextView ==
  \/ \E h \in Handlers, in \in ViewInputs : incrementPageViewCountBegin(h, in)
  \/ \E h \in Handlers : incrementPageViewCountUpsert(h)
  \/ \E h \in Handlers : incrementPageViewCountSelect(h)

SpecView == Init /\ [][NextView]_vars

\* The notification pipeline on its own: events are queued directly, the
\* site owners change their settings, the deployment's secret is rotated.
NextNotify ==
  \/ \E call \in QueueCalls : queueSiteNotificationEvent(call[1], call[2])
  \/ \E i \in DOMAIN tasks, f \in BOOLEAN, s \in BOOLEAN : notifyTaskInsert(i, f, s)
  \/ \E i \in DOMAIN tasks, f \in BOOLEAN : notifyTaskLoad(i, f)
  \/ \E i \in DOMAIN tasks, o \in RelayOutcomes : notifyTaskSend(i, o)
  \/ \E j \in DOMAIN ngcTasks : notificationsGcSelect(j)
  \/ \E j \in DOMAIN ngcTasks : notificationsGcDelete(j)
  \/ \E h \in OneHandler, site \in SettingsSites, payload \in SettingsPayloads :
       upsertSiteNotifySettingsBegin(h, site, payload)
  \/ \E h \in OneHandler : upsertSiteNotifySettingsWrite(h)
  \/ \E h \in OneHandler : upsertSiteNotifySettingsRead(h)
  \/ rotateSecret

\* The settings as an owner saved them before: everything on but the
\* reaction toggle, or everything on.
SettingsReactionsOff ==
  [enabled |-> Given(TRUE), notifyComments |-> Given(TRUE), notifyReactions |-> Given(FALSE),
   telegramChatId |-> "-100123456", telegramBotToken |-> "123456:AAAAAAAAAAAAAAAAAAAAAAAA",
   clearBotToken |-> FALSE]

SettingsAllOn ==
  [enabled |-> Given(TRUE), notifyComments |-> Undefined, notifyReactions |-> Undefined,
   telegramChatId |-> "-100123456", telegramBotToken |-> "123456:AAAAAAAAAAAAAAAAAAAAAAAA",
   clearBotToken |-> FALSE]

\* The site has no settings row yet, or one saved earlier.
InitNotify ==
  \E settingsRow \in {NoSettingsRow, SettingsRow(SettingsReactionsOff, NoCipher, "secret1")} :
    InitWith(MaxNotifyOps, NoRateRow, NoRateGhost, settingsRow)

SpecNotify == InitNotify /\ [][NextNotify]_vars

\* The reaction limiter's row of the client as 30 requests inside the
\* current window leave it.
ExhaustedGhost ==
  [win |-> [open |-> TRUE, start |-> 0, n |-> REACTION_RATE_MAX_ATTEMPTS,
            reopened |-> FALSE, denied |-> FALSE],
   overlapped |-> FALSE, cleared |-> FALSE, granted |-> REACTION_RATE_MAX_ATTEMPTS,
   traced |-> FALSE, allowedAt |-> << >>]

\* The client's limiter row is absent or exhausted; the owner's settings
\* are absent or saved with everything on.
InitApi ==
  \E exhausted \in BOOLEAN,
     settingsRow \in {NoSettingsRow, SettingsRow(SettingsAllOn, NoCipher, "secret1")} :
    InitWith(MaxRequests,
             IF exhausted THEN RateRow(0, REACTION_RATE_MAX_ATTEMPTS, 0) ELSE NoRateRow,
             IF exhausted THEN ExhaustedGhost ELSE NoRateGhost,
             settingsRow)

\* POST /api/reactions with the notification tasks it queues
NextApi ==
  \/ \E h \in OneHandler, r \in ReactionRequests, s \in BOOLEAN :
       reactionRequestBegin(h, r, s)
  \/ \E h \in OneHandler : consumeRateLimitSelect(h)
  \/ \E h \in OneHandler : consumeRateLimitWrite(h)
  \/ rateLimitGcRun
  \/ \E h \in OneHandler : reactionRequestValidate(h)
  \/ \E h \in OneHandler : togglePostReactionSelect(h)
  \/ \E h \in OneHandler : togglePostReactionDelete(h)
  \/ \E h \in OneHandler : togglePostReactionInsert(h)
  \/ \E h \in OneHandler : reactionRequestNotify(h)
  \/ \E h \in OneHandler : reactionRequestRespond(h)
  \/ \E i \in DOMAIN tasks, f \in BOOLEAN, s \in BOOLEAN : notifyTaskInsert(i, f, s)
  \/ \E i \in DOMAIN tasks, f \in BOOLEAN : notifyTaskLoad(i, f)
  \/ \E i \in DOMAIN tasks, o \in RelayOutcomes : notifyTaskSend(i, o)
  \/ \E j \in DOMAIN ngcTasks : notificationsGcSelect(j)
  \/ \E j \in DOMAIN ngcTasks : notificationsGcDelete(j)

SpecApi == InitApi /\ [][NextApi]_vars

\* The owner's settings are saved with everything on, so that the tasks of
\* the requests reach the relay.
InitRequests ==
  InitWith(MaxRequests, NoRateRow, NoRateGhost, SettingsRow(SettingsAllOn, NoCipher, "secret1"))

\* The bot token as the settings row may hold it: written by this
\* deployment, by one with another session secret, damaged in the store, or
\* not of the versioned form
StoredTokens ==
  { [v |-> "v1", key |-> k, plain |-> "123456:AAAAAAAAAAAAAAAAAAAAAAAA"] :
      k \in {"secret1", "secret0", "damaged"} }
    \cup {[v |-> "v0", key |-> "secret1", plain |-> "123456:AAAAAAAAAAAAAAAAAAAAAAAA"]}

\* The owner's settings are on, with one of the stored tokens
InitDecrypt ==
  \E enc \in StoredTokens :
    InitWith(MaxRequests, NoRateRow, NoRateGhost,
             [SettingsRow(SettingsAllOn, NoCipher, "secret1") EXCEPT
                !.telegramBotTokenEnc = enc])

\* POST /api/reactions and POST /api/comments with the tasks they queue
NextRequests ==
  \/ NextApi
  \/ \E h \in OneHandler, r \in CommentRequests, s \in BOOLEAN :
       commentRequestBegin(h, r, s)
  \/ \E h \in OneHandler : commentRequestValidate(h)
  \/ \E h \in OneHandler, f \in BOOLEAN : commentRequestCreate(h, f)

SpecRequests == InitRequests /\ [][NextRequests]_vars

\* A visitor reacts to post a and comments on it; the tasks of the requests
\* run with the store answering (its failures are part of NextRequests)
NextDecrypt ==
  \/ \E h \in OneHandler :
       reactionRequestBegin(h, [slug |-> "alice", postSlug |-> "a", reactionKey |-> "lion",
                                actor |-> "aaaaaaaaaaaaaaaaaaaa"], FALSE)
  \/ \E h \in OneHandler :
       commentRequestBegin(h, [slug |-> "alice", postSlug |-> "a", authorName |-> "Al",
                               content |-> "hi"], FALSE)
  \/ \E h \in OneHandler : consumeRateLimitSelect(h)
  \/ \E h \in OneHandler : consumeRateLimitWrite(h)
  \/ \E h \in OneHandler : reactionRequestValidate(h)
  \/ \E h \in OneHandler : togglePostReactionSelect(h)
  \/ \E h \in OneHandler : togglePostReactionDelete(h)
  \/ \E h \in OneHandler : togglePostReactionInsert(h)
  \/ \E h \in OneHandler : reactionRequestNotify(h)
  \/ \E h \in OneHandler : reactionRequestRespond(h)
  \/ \E h \in OneHandler : commentRequestValidate(h)
  \/ \E h \in OneHandler : commentRequestCreate(h, FALSE)
  \/ \E i \in DOMAIN tasks : notifyTaskInsert(i, FALSE, FALSE)
  \/ \E i \in DOMAIN tasks : notifyTaskLoad(i, FALSE)
  \/ \E i \in DOMAIN tasks, o \in RelayOutcomes : notifyTaskSend(i, o)

SpecDecrypt == InitDecrypt /\ [][NextDecrypt]_vars

\* resolveReactorToken on the requests of two clients at a time, over the
\* deployments of the worker
NextActor ==
  \/ \E h \in TwoHandlers, request \in ResolveRequests : resolveReactorTokenBegin(h, request)
  \/ \E h \in TwoHandlers, random \in RandomHex : resolveReactorTokenDerive(h, random)
  \/ \E h \in TwoHandlers : resolveReactorTokenMix(h)
  \/ rotateSecret

SpecActor == Init /\ [][NextActor]_vars

\* buildReactionSnapshot on the maps of counts, and the pages rendered from
\* its snapshots
NextSnapshot ==
  \/ \E h \in OneHandler, countsByKey \in CountMaps, selectedKeys \in SelectedSets :
       buildReactionSnapshotCall(h, countsByKey, selectedKeys)
  \/ \E h \in OneHandler, order \in ItemOrders : renderPostPage(h, order)

\* The owner of a site reads and saves the notification settings, from two
\* windows at once, before and after a new deployment
NextSettings ==
  \/ \E h \in TwoHandlers, site \in SettingsSites, payload \in SettingsPayloads :
       upsertSiteNotifySettingsBegin(h, site, payload)
  \/ \E h \in TwoHandlers : upsertSiteNotifySettingsWrite(h)
  \/ \E h \in TwoHandlers : upsertSiteNotifySettingsRead(h)
  \/ \E h \in TwoHandlers, site \in SettingsSites : notifySettingsRequest(h, site)
  \/ rotateSecret

SpecSettings == Init /\ [][NextSettings]_vars

\* The login limiter's row of the client: none, or as four failed logins at
\* start-up leave it
FailedLogins == LOGIN_RATE_MAX_ATTEMPTS - 1

InitLogin ==
  \E failed \in {0, FailedLogins} :
    InitRows(MaxOps,
             [k \in RateKeys |->
                IF k = LoginRateKey /\ failed > 0 THEN RateRow(0, failed, 0) ELSE NoRateRow],
             [k \in RateKeys |->
                IF k = LoginRateKey /\ failed > 0
                  THEN [NoRateGhost EXCEPT
                          !.win = [open |-> TRUE, start |-> 0, n |-> failed,
                                   reopened |-> FALSE, denied |-> FALSE],
                          !.granted = failed]
                  ELSE NoRateGhost],
             NoSettingsRow, PublishedPosts, {})

\* Logins of one client on the host of alice, from two windows at once,
\* beside direct calls of consume and clear on one key
NextLogin ==
  \/ \E h \in TwoHandlers, r \in LoginRequests : loginRequestBegin(h, r, FALSE)
  \/ \E h \in TwoHandlers : consumeRateLimitBegin(h, "kb", RateArgsOf("kb"), FALSE)
  \/ \E h \in TwoHandlers : consumeRateLimitSelect(h)
  \/ \E h \in TwoHandlers : consumeRateLimitWrite(h)
  \/ \E h \in TwoHandlers : clearRateLimit(h, "kb")
  \/ \E h \in TwoHandlers : loginRequestVerify(h)
  \/ \E h \in TwoHandlers : loginRequestClear(h)
  \/ \E h \in TwoHandlers : loginRequestRespond(h)

SpecLogin == InitLogin /\ [][NextLogin]_vars

\* The posts whose views are counted
ViewedPosts == {<<1, "hello-world">>, <<2, "hello-world">>}

\* Visitors of one address open pages of a site, some of them a day after
\* the others (the sweep of old rate rows is left to the rate limiter's own
\* specification)
NextViews ==
  \/ \E h \in TwoHandlers, r \in ViewRequests : viewRequestBegin(h, r, FALSE)
  \/ \E h \in TwoHandlers : consumeRateLimitSelect(h)
  \/ \E h \in TwoHandlers : consumeRateLimitWrite(h)
  \/ \E h \in TwoHandlers : viewRequestChecked(h)
  \/ \E h \in TwoHandlers : viewRequestList(h)
  \/ \E h \in TwoHandlers : viewRequestCount(h)
  \/ \E h \in TwoHandlers : incrementPageViewCountUpsert(h)
  \/ \E h \in TwoHandlers : viewRequestStoreFails(h)
  \/ \E h \in TwoHandlers : incrementPageViewCountSelect(h)
  \/ \E h \in TwoHandlers : viewRequestRespond(h)
  \/ Tick(GcMaxAgeMs + 500)

SpecViews ==
  /\ InitFrom(MaxOps, NoRateRow, NoRateGhost, NoSettingsRow, ViewedPosts)
  /\ [][NextViews]_vars

\* Two tenants with rows of every table at start-up: a comment, a reaction,
\* a counted post and saved settings each; the 800 older notifications of
\* site 1 follow an unread one of site 2
TenantReactions ==
  [t \in ReactionTuples |->
     IF t[2] = "a" /\ t[3] = "lion" /\ t[4] = "aaaaaaaaaaaaaaaaaaaa" THEN 1 ELSE 0]

TenantViews ==
  [k \in ViewKeys |->
     IF k[2] = "post" /\ k[3] = "a" THEN [exists |-> TRUE, viewCount |-> k[1] + 1]
     ELSE NoViewRow]

FirstNotification ==
  [id |-> 1, siteId |-> 2, eventType |-> "comment", postSlug |-> "a", reactionKey |-> "",
   readAt |-> NullTime, task |-> 0]

InitTenants ==
  /\ now = 0
  /\ ticks = 0
  /\ opsLeft = MaxOps
  /\ pc = [h \in Handlers |-> "idle"]
  /\ op = [h \in Handlers |-> NoOp]
  /\ ret = [h \in Handlers |-> NoRet]
  /\ rate_limits = [k \in RateKeys |-> NoRateRow]
  /\ gcPending = 0
  /\ rlGhost = [k \in RateKeys |-> NoRateGhost]
  /\ reactions = TenantReactions
  /\ rxGhost = [pair |-> NoPair, race |-> NoRace]
  /\ page_views = TenantViews
  /\ pvGhost = [k \in ViewKeys |-> [calls |-> TenantViews[k].viewCount, overlapped |-> FALSE]]
  /\ req = [h \in Handlers |-> NoReq]
  /\ posts = PublishedPosts
  /\ comments = {[id |-> s, siteId |-> s, postSlug |-> "a"] : s \in Sites}
  /\ site_notifications = {FirstNotification}
  /\ olderNotifications = [lo |-> 2, hi |-> OlderNotificationsAtStart + 1]
  /\ site_telegram_settings =
       [s \in Sites |->
          SettingsRow(IF s = 1 THEN SettingsAllOn ELSE SettingsReactionsOff,
                      NoCipher, "secret1")]
  /\ secretKey = "secret1"
  /\ readyPromise = [t \in SchemaTables |-> 0]
  /\ bootstraps = << >>
  /\ tasks = << >>
  /\ ngcTasks = << >>

\* markSiteNotificationsRead with all, and with ids of rows of both sites
TenantMarkOptions ==
  { [all |-> TRUE, ids |-> {}],
    [all |-> FALSE, ids |-> {0, 1, OlderNotificationsAtStart + 2}] }

\* The core operations, each called by either tenant, one call at a time
\* beside the notification tasks and the sweeps
NextTenants ==
  \/ \E h \in OneHandler, site \in Sites : createComment(h, site, "a")
  \/ \E h \in OneHandler, site \in Sites, id \in CommentIds : deleteComment(h, site, id)
  \/ \E h \in OneHandler, site \in Sites :
       listPostCommentsBegin(h, <<site, "a", Num(1), TRUE>>)
  \/ \E h \in OneHandler : listPostCommentsCount(h)
  \/ \E h \in OneHandler : listPostCommentsRows(h)
  \/ \E h \in OneHandler, site \in Sites :
       togglePostReactionBegin(h, <<site, "a", "lion", "aaaaaaaaaaaaaaaaaaaa">>, FALSE)
  \/ \E h \in OneHandler : togglePostReactionSelect(h)
  \/ \E h \in OneHandler : togglePostReactionDelete(h)
  \/ \E h \in OneHandler : togglePostReactionInsert(h)
  \/ \E h \in OneHandler, site \in Sites :
       listPostReactionSnapshotBegin(h, <<site, "a", "aaaaaaaaaaaaaaaaaaaa">>)
  \/ \E h \in OneHandler : listPostReactionSnapshotCounts(h)
  \/ \E h \in OneHandler : listPostReactionSnapshotSelected(h)
  \/ \E h \in OneHandler, site \in Sites :
       incrementPageViewCountBegin(h, <<site, "post", "a">>)
  \/ \E h \in OneHandler : incrementPageViewCountUpsert(h)
  \/ \E h \in OneHandler : incrementPageViewCountSelect(h)
  \/ \E h \in OneHandler, site \in Sites : listPageViewCounts(h, site, "post", {"a", "b"})
  \/ \E site \in Sites :
       queueSiteNotificationEvent(site, [eventType |-> "comment", postSlug |-> "a",
                                         reactionKey |-> ""])
  \/ \E i \in DOMAIN tasks, scheduled \in BOOLEAN : notifyTaskInsert(i, FALSE, scheduled)
  \/ \E i \in DOMAIN tasks : notifyTaskLoad(i, FALSE)
  \/ \E i \in DOMAIN tasks : notifyTaskSend(i, "ok")
  \/ \E j \in DOMAIN ngcTasks : notificationsGcSelect(j)
  \/ \E j \in DOMAIN ngcTasks : notificationsGcDelete(j)
  \/ \E h \in OneHandler, site \in Sites : listSiteNotificationsBegin(h, site)
  \/ \E h \in OneHandler : listSiteNotificationsTotal(h)
  \/ \E h \in OneHandler : listSiteNotificationsUnread(h)
  \/ \E h \in OneHandler : listSiteNotificationsRows(h)
  \/ \E h \in OneHandler, site \in Sites, options \in TenantMarkOptions :
       markSiteNotificationsRead(h, site, options)
  \/ \E h \in OneHandler, site \in Sites :
       upsertSiteNotifySettingsBegin(h, site, SettingsReactionsOff)
  \/ \E h \in OneHandler : upsertSiteNotifySettingsWrite(h)
  \/ \E h \in OneHandler : upsertSiteNotifySettingsRead(h)
  \/ \E h \in OneHandler, site \in Sites : notifySettingsRequest(h, site)

SpecTenants == InitTenants /\ [][NextTenants]_vars

\* The comment limiter's row of the client: none, or as six comments inside
\* the current window leave it
InitCommentRequests ==
  \E exhausted \in BOOLEAN :
    InitRows(MaxRequests,
             [k \in RateKeys |->
                IF k = CommentRateKey /\ exhausted
                  THEN RateRow(0, COMMENT_RATE_MAX_ATTEMPTS, 0) ELSE NoRateRow],
             [k \in RateKeys |->
                IF k = CommentRateKey /\ exhausted
                  THEN [NoRateGhost EXCEPT
                          !.win = [open |-> TRUE, start |-> 0, n |-> COMMENT_RATE_MAX_ATTEMPTS,
                                   reopened |-> FALSE, denied |-> FALSE],
                          !.granted = COMMENT_RATE_MAX_ATTEMPTS]
                  ELSE NoRateGhost],
             SettingsRow(SettingsAllOn, NoCipher, "secret1"), PublishedPosts, {})

\* POST /api/comments of two visitors at a time, with the tasks it queues
NextCommentRequests ==
  \/ \E h \in TwoHandlers, r \in CommentRequests : commentRequestBegin(h, r, FALSE)
  \/ \E h \in TwoHandlers : consumeRateLimitSelect(h)
  \/ \E h \in TwoHandlers : consumeRateLimitWrite(h)
  \/ \E h \in TwoHandlers : commentRequestValidate(h)
  \/ \E h \in TwoHandlers, f \in BOOLEAN : commentRequestCreate(h, f)
  \/ \E i \in DOMAIN tasks, f \in BOOLEAN : notifyTaskInsert(i, f, FALSE)
  \/ \E i \in DOMAIN tasks, f \in BOOLEAN : notifyTaskLoad(i, f)
  \/ \E i \in DOMAIN tasks, o \in RelayOutcomes : notifyTaskSend(i, o)

SpecCommentRequests == InitCommentRequests /\ [][NextCommentRequests]_vars

\* Post pages are rendered with the pages of the site in every order
NextNav == \E h \in OneHandler, sitePages \in NavInputs : renderSiteModeNav(h, sitePages)

SpecNav == InitWith(MaxSnapshots, NoRateRow, NoRateGhost, NoSettingsRow) /\ [][NextNav]_vars

\* The comments of post a of site 1 after n comment requests
StoredComments(n) == {[id |-> i, siteId |-> 1, postSlug |-> "a"] : i \in 1..n}

\* Post a has no comment, a full page of them, or two pages and one
InitComments ==
  \E n \in {0, COMMENTS_PAGE_SIZE, MaxStoredComments} :
    InitStore(MaxOps, NoRateRow, NoRateGhost, NoSettingsRow, PublishedPosts,
              StoredComments(n))

\* The comments of a post are listed while visitors add to them
NextComments ==
  \/ \E h \in TwoHandlers, in \in ListCommentsInputs : listPostCommentsBegin(h, in)
  \/ \E h \in TwoHandlers : listPostCommentsCount(h)
  \/ \E h \in TwoHandlers : listPostCommentsRows(h)
  \/ \E h \in OneHandler :
       commentRequestBegin(h, [slug |-> "alice", postSlug |-> "a", authorName |-> "Al",
                               content |-> "hi"], FALSE)
  \/ \E h \in OneHandler : consumeRateLimitSelect(h)
  \/ \E h \in OneHandler : consumeRateLimitWrite(h)
  \/ \E h \in OneHandler : commentRequestValidate(h)
  \/ \E h \in OneHandler, f \in BOOLEAN : commentRequestCreate(h, f)

SpecComments == InitComments /\ [][NextComments]_vars

\* The posts of the sites before any rename: post b of site 1 does not exist
PostsBeforeRename == {<<1, "a">>, <<2, "a">>}

\* The owner saves and renames posts while visitors comment on them
NextPosts ==
  \/ \E h \in TwoHandlers, r \in PostSaveRequests : postSaveBegin(h, r)
  \/ \E h \in TwoHandlers : postSavePrevious(h)
  \/ \E h \in TwoHandlers : postSaveTarget(h)
  \/ \E h \in TwoHandlers, f \in BOOLEAN : postSaveFiles(h, f)
  \/ \E h \in TwoHandlers, f \in BOOLEAN : postSaveDeleteMeta(h, f)
  \/ \E h \in TwoHandlers, f \in BOOLEAN : postSaveMoveComments(h, f)
  \/ \E h \in TwoHandlers, f \in BOOLEAN : postSaveMoveReactions(h, f)
  \/ \E h \in TwoHandlers, f \in BOOLEAN : postSaveUpsertMeta(h, f)
  \/ \E h \in TwoHandlers :
       commentRequestBegin(h, [slug |-> "alice", postSlug |-> "a", authorName |-> "Al",
                               content |-> "hi"], FALSE)
  \/ \E h \in TwoHandlers : consumeRateLimitSelect(h)
  \/ \E h \in TwoHandlers : consumeRateLimitWrite(h)
  \/ \E h \in TwoHandlers : commentRequestValidate(h)
  \/ \E h \in TwoHandlers, f \in BOOLEAN : commentRequestCreate(h, f)

SpecPosts ==
  InitFrom(MaxOps, NoRateRow, NoRateGhost, NoSettingsRow, PostsBeforeRename)
    /\ [][NextPosts]_vars

\* The view requests on the posts the owner renames and deletes, and on the
\* home page
PostViewRequests ==
  { [slug |-> "alice", resourceType |-> "post", resourceKey |-> "a"],
    [slug |-> "alice", resourceType |-> "post", resourceKey |-> "b"],
    [slug |-> "alice", resourceType |-> "HOME", resourceKey |-> ""] }

\* The owner of alice renames and deletes posts while visitors of one
\* address open the pages and the pages read the counts

NextViewCounts ==
  \/ \E h \in TwoHandlers, r \in PostViewRequests : viewRequestBegin(h, r, FALSE)
  \/ \E h \in TwoHandlers : consumeRateLimitSelect(h)
  \/ \E h \in TwoHandlers : consumeRateLimitWrite(h)
  \/ \E h \in TwoHandlers : viewRequestChecked(h)
  \/ \E h \in TwoHandlers : viewRequestList(h)
  \/ \E h \in TwoHandlers : viewRequestCount(h)
  \/ \E h \in TwoHandlers : incrementPageViewCountUpsert(h)
  \/ \E h \in TwoHandlers : viewRequestStoreFails(h)
  \/ \E h \in TwoHandlers : incrementPageViewCountSelect(h)
  \/ \E h \in TwoHandlers : viewRequestRespond(h)
  \/ \E h \in TwoHandlers : listPageViewCounts(h, 1, "post", {"a", "b", "zz"})
  \/ \E h \in TwoHandlers, r \in PostSaveRequests : postSaveBegin(h, r)
  \/ \E h \in TwoHandlers : postSavePrevious(h)
  \/ \E h \in TwoHandlers : postSaveTarget(h)
  \/ \E h \in TwoHandlers, f \in BOOLEAN : postSaveFiles(h, f)
  \/ \E h \in TwoHandlers, f \in BOOLEAN : postSaveDeleteMeta(h, f)
  \/ \E h \in TwoHandlers, f \in BOOLEAN : postSaveMoveComments(h, f)
  \/ \E h \in TwoHandlers, f \in BOOLEAN : postSaveMoveReactions(h, f)
  \/ \E h \in TwoHandlers, f \in BOOLEAN : postSaveUpsertMeta(h, f)
  \/ \E h \in TwoHandlers, r \in PostDeleteRequests : postDeleteBegin(h, r)
  \/ \E h \in TwoHandlers, f \in BOOLEAN : postDeleteFiles(h, f)
  \/ \E h \in TwoHandlers, f \in BOOLEAN : postDeleteMeta(h, f)
  \/ \E h \in TwoHandlers, f \in BOOLEAN : postDeleteComments(h, f)
  \/ \E h \in TwoHandlers, f \in BOOLEAN : postDeleteReactions(h, f)

SpecViewCounts ==
  /\ InitFrom(MaxOps, NoRateRow, NoRateGhost, NoSettingsRow, PostsBeforeRename)
  /\ [][NextViewCounts]_vars

\* The owners mark their notifications read while events are stored and
\* time passes (no site has relay settings, so the tasks end after the
\* load; the retention sweep, which only deletes rows, is left to the
\* specification of the pipeline)
NextRead ==
  \/ \E site \in Sites :
       queueSiteNotificationEvent(site, [eventType |-> "comment", postSlug |-> "a",
                                         reactionKey |-> ""])
  \/ \E i \in DOMAIN tasks : notifyTaskInsert(i, FALSE, FALSE)
  \/ \E i \in DOMAIN tasks : notifyTaskLoad(i, FALSE)
  \/ \E h \in OneHandler, site \in Sites, options \in MarkOptions :
       markSiteNotificationsRead(h, site, options)
  \/ \E d \in TickSteps : Tick(d)

SpecRead == Init /\ [][NextRead]_vars

\* listPostReactionSnapshot while the actors toggle their reactions
NextList ==
  \/ \E h \in TwoHandlers, in \in ToggleInputs : togglePostReactionBegin(h, in, FALSE)
  \/ \E h \in TwoHandlers : togglePostReactionSelect(h)
  \/ \E h \in TwoHandlers : togglePostReactionDelete(h)
  \/ \E h \in TwoHandlers : togglePostReactionInsert(h)
  \/ \E h \in TwoHandlers, in \in ListInputs : listPostReactionSnapshotBegin(h, in)
  \/ \E h \in TwoHandlers : listPostReactionSnapshotCounts(h)
  \/ \E h \in TwoHandlers : listPostReactionSnapshotSelected(h)

SpecList == Init /\ [][NextList]_vars

SpecSnapshot == InitWith(MaxSnapshots, NoRateRow, NoRateGhost, NoSettingsRow) /\ [][NextSnapshot]_vars

----------------------------------------------------------------------------
(* Claims about the rate limiter *)

\* The calls of key k so far ran one after another, and nothing but consume
\* touched the key.
SerialConsumes(k) == ~rlGhost[k].overlapped /\ ~rlGhost[k].cleared

StoredAttempts(k) == IF rate_limits[k].exists THEN rate_limits[k].attempts ELSE 0

\* C1: when the consume calls of a key run one after another from no row,
\* with fixed windowMs W >= 1000 and maxAttempts M >= 1, a call is allowed
\* exactly when it is among the first M calls of its window (counted apart
\* from the table, a window running W ms from the call that opened it), a
\* refused call carries retryAfterMs > 0, and the first call made once W ms
\* have passed since the window opened is allowed with attempts = 1.
C1_WindowCorrectness ==
  \A h \in Handlers :
    (pc[h] = "done" /\ op[h].kind = "consume" /\ SerialConsumes(op[h].key)) =>
      /\ ret[h].allowed = op[h].expectAllowed
      /\ ~ret[h].allowed => ret[h].retryAfterMs > 0
      /\ op[h].expectFresh => (ret[h].allowed /\ ret[h].attempts = 1)

\* Serial calls on one key were refused at least once and, after the window
\* ran out, a call opened a new window.
C1_Witness ==
  \E k \in RateKeys :
    /\ SerialConsumes(k)
    /\ rlGhost[k].win.denied
    /\ rlGhost[k].win.reopened
    /\ \A h \in Handlers : Idle(h)

\* C2: whatever the interleaving of the handlers calling consume on one key
\* inside one window, at most maxAttempts calls are allowed and the stored
\* attempts is the number of calls that were allowed.
C2_NoLostRateUpdates ==
  \A k \in RateKeys :
    (~rlGhost[k].cleared /\ now < SafeWindowMs(RateArgsOf(k).windowMs)) =>
      /\ rlGhost[k].granted <= SafeMaxAttempts(RateArgsOf(k).maxAttempts)
      /\ ~BusyOnKey(k) => StoredAttempts(k) = rlGhost[k].granted

----------------------------------------------------------------------------
(* Claims about the reaction engine *)

PairDone == rxGhost.pair.phase = 4

PairRestored ==
  /\ rxGhost.pair.r1 = ToggleResult(TRUE)
  /\ rxGhost.pair.r2 = ToggleResult(FALSE)
  /\ rxGhost.pair.after = rxGhost.pair.before

\* C3 as stated: two successive toggle calls of a tuple that had no row,
\* with no other toggle of that tuple in between, return active=true then
\* active=false, and after the second call the rows (so the count of the
\* key) are what they were before the first call.
C3_ToggleTwice_AsStated ==
  (PairDone /\ ~rxGhost.pair.otherToggle) => PairRestored

\* C3 amended: the same, when no other statement changed the reactions
\* table between the start of the first call and the return of the second.
C3_ToggleTwice ==
  (PairDone /\ ~rxGhost.pair.otherToggle /\ ~rxGhost.pair.otherWrite) => PairRestored

\* A pair of successive toggles completed undisturbed on a table that
\* already held a row of another tuple.
C3_Witness ==
  /\ PairDone
  /\ ~rxGhost.pair.otherToggle
  /\ ~rxGhost.pair.otherWrite
  /\ rxGhost.pair.before # EmptyReactions

\* C4: in every reachable state there is at most one reaction row per
\* (siteId, postSlug, reactionKey, actorToken), whatever the sequence and
\* interleaving of toggles, post renames and post deletes.
C4_AtMostOneRowPerTuple ==
  \A t \in ReactionTuples : reactions[t] <= 1

\* A statement that would have stored a second row was rejected.
C4_Witness ==
  \E h \in Handlers : pc[h] = "failed" /\ op[h].kind \in {"toggle", "move"}

\* C5: two toggle calls of one tuple issued concurrently by two handlers
\* behave as in some serial order: neither fails, one returns active=true
\* and the other active=false, and the row is present at the end exactly
\* when it was present at the start.
C5_ConcurrentTogglesSerial ==
  (rxGhost.race.on /\ \A h \in rxGhost.race.calls : Idle(h)) =>
    /\ \A h \in rxGhost.race.calls : ret[h].kind = "toggle"
    /\ {ret[h].active : h \in rxGhost.race.calls} = {TRUE, FALSE}
    /\ (reactions[rxGhost.race.tuple] >= 1) = rxGhost.race.present0
----------------------------------------------------------------------------
(* Claims about the view counter *)

StoredViews(k) == IF page_views[k].exists THEN page_views[k].viewCount ELSE 0

\* C6: for every number of incrementView calls of one key with a non-empty
\* resource key and every interleaving of them, once they are through the
\* stored viewCount has risen by exactly the number of calls (a missing row
\* counts as 0).
C6_NoLostViewIncrement ==
  \A k \in ViewKeys :
    (~\E h \in Handlers : InView(h, k)) => StoredViews(k) = pvGhost[k].calls

\* Three calls of one key, one per handler, overlapped and are through.
C6_Witness ==
  \E k \in ViewKeys :
    /\ pvGhost[k].overlapped
    /\ pvGhost[k].calls >= 3
    /\ \A h \in Handlers : pc[h] = "done" /\ op[h].kind = "view" /\ op[h].valid /\ op[h].viewKey = k

\* C7: when the incrementView calls of one key run one after another, the
\* k-th call returns the count stored before the first call plus k.
C7_ReturnsPostIncrement ==
  \A h \in Handlers :
    (pc[h] = "done" /\ op[h].kind = "view" /\ op[h].valid
       /\ ~pvGhost[op[h].viewKey].overlapped) =>
      ret[h].count = op[h].nth

\* A second or later serial call of a key returned.
C7_Witness ==
  \E h \in Handlers :
    /\ pc[h] = "done" /\ op[h].kind = "view" /\ op[h].valid
    /\ ~pvGhost[op[h].viewKey].overlapped
    /\ op[h].nth >= 2
----------------------------------------------------------------------------
(* Claims about the notification pipeline *)

TasksOfRequest(id) ==
  {i \in DOMAIN tasks : tasks[i].origin.kind = "reaction" /\ tasks[i].origin.id = id}

\* The handler is past the line that decides whether to notify.
PastNotify(h) == pc[h] = "rq_snapshot" \/ req[h].status = 200

TaskRows(i) == Cardinality(RowsOfTask(site_notifications, i))

\* The store took the INSERT of task i.
PastInsert(i) ==
  tasks[i].pc \in {"nt_load", "nt_send", "done"}
    \/ (tasks[i].pc = "failed" /\ tasks[i].fault # "insert")

\* C8: a reaction request queues a notification event exactly when its
\* toggle returned active=true (one event, none otherwise and none for a
\* request that was refused); the event of a toggle to active stores exactly
\* one notification row once the store took its insert and makes at most
\* one relay call; a request whose toggle returned active=false adds no row
\* and no relay call, having no event.
C8_NotifyIffActive ==
  /\ \A h \in Handlers :
       req[h].kind = "reaction" =>
         Cardinality(TasksOfRequest(req[h].id)) =
           IF PastNotify(h) /\ req[h].active THEN 1 ELSE 0
  /\ \A i \in DOMAIN tasks :
       tasks[i].origin.kind = "reaction" =>
         /\ tasks[i].origin.active
         /\ TaskRows(i) = IF PastInsert(i) THEN 1 ELSE 0
         /\ tasks[i].relays <= 1
  /\ \A r \in site_notifications : r.task \in DOMAIN tasks

\* One actor toggled a key of a post twice: the first request's event
\* stored one row and made one relay call, the second request returned
\* active=false with 200 and queued nothing.
C8_Witness ==
  \E h \in Handlers, i \in DOMAIN tasks :
    /\ req[h].kind = "reaction" /\ req[h].status = 200 /\ ~req[h].active
    /\ TasksOfRequest(req[h].id) = {}
    /\ tasks[i].origin.kind = "reaction" /\ tasks[i].origin.id > req[h].id
    /\ tasks[i].origin.actor = req[h].actor
    /\ tasks[i].site = req[h].site
    /\ tasks[i].event.postSlug = req[h].postSlug
    /\ tasks[i].event.reactionKey = req[h].reactionKey
    /\ tasks[i].pc = "done" /\ tasks[i].relays = 1 /\ TaskRows(i) = 1
    /\ Cardinality(site_notifications) = 1

\* The task ran to its end, or to the failure of its relay call.
RanThrough(i) ==
  tasks[i].pc = "done" \/ (tasks[i].pc = "failed" /\ tasks[i].fault = "relay")

\* C9: a queued valid event of type comment or reaction whose task ran
\* through made exactly one relay call when the settings row of its site, as
\* the task read it, had enabled on, the toggle of the type on, a chat id and
\* a bot token the secret decrypts, and no relay call in every other case;
\* in both cases its notification row is stored.  No task ever makes a
\* second relay call.
C9_RelayIffSettingsAllow ==
  \A i \in DOMAIN tasks :
    /\ tasks[i].relays <= 1
    /\ tasks[i].pc \in {"nt_insert", "nt_load", "nt_send"} => tasks[i].relays = 0
    /\ (ValidEvent(tasks[i].event) /\ RanThrough(i)) =>
         /\ tasks[i].relays = IF tasks[i].allowed THEN 1 ELSE 0
         /\ TaskRows(i) = 1

\* Under one settings row with the reaction toggle off and everything else
\* on, a comment event was relayed once and a reaction event not at all.
C9_Witness ==
  \E i \in DOMAIN tasks, j \in DOMAIN tasks :
    /\ tasks[i].site = tasks[j].site
    /\ site_telegram_settings[tasks[i].site].notifyReactions = 0
    /\ tasks[i].event.eventType = "comment" /\ RanThrough(i) /\ tasks[i].relays = 1
    /\ tasks[j].event.eventType = "reaction" /\ RanThrough(j) /\ tasks[j].relays = 0
    /\ TaskRows(i) = 1 /\ TaskRows(j) = 1

\* C10: for every queued event with type comment or reaction and a
\* non-empty post slug, whatever the settings row of the site, the table
\* holds exactly one row of the event from the moment the store took the
\* insert (and none before, never two), and that row was there when the
\* settings were loaded.
C10_RowBeforeSettings ==
  \A i \in DOMAIN tasks :
    ValidEvent(tasks[i].event) =>
      /\ TaskRows(i) = IF PastInsert(i) THEN 1 ELSE 0
      /\ tasks[i].loaded => tasks[i].rowsAtLoad = 1
      /\ \A r \in RowsOfTask(site_notifications, i) :
           /\ r.siteId = tasks[i].site
           /\ r.eventType = tasks[i].event.eventType
           /\ r.postSlug = tasks[i].event.postSlug

\* An event ran through with its row stored, and stored when the settings
\* were loaded, while the site's saved bot token could not be decrypted.
C10_Witness ==
  \E i \in DOMAIN tasks :
    /\ ValidEvent(tasks[i].event) /\ tasks[i].pc = "done" /\ tasks[i].loaded
    /\ tasks[i].rowsAtLoad = 1 /\ TaskRows(i) = 1 /\ tasks[i].relays = 0
    /\ site_telegram_settings[tasks[i].site].enabled = 1
    /\ site_telegram_settings[tasks[i].site].telegramBotTokenEnc # NoCipher
    /\ site_telegram_settings[tasks[i].site].telegramBotTokenEnc.key # secretKey

----------------------------------------------------------------------------
(* Claims about failures of the notification task *)

\* A step of a task already queued, whatever its outcome
TaskStep == Len(tasks') = Len(tasks) /\ tasks' # tasks

\* The request of handler h is answered and queued a task
AnsweredWithTask(h) ==
  /\ req[h].kind \in {"comment", "reaction"}
  /\ pc[h] = "done"
  /\ \E i \in DOMAIN tasks :
       tasks[i].origin.kind = req[h].kind /\ tasks[i].origin.id = req[h].id

\* The response and the stored row of an answered request are those of a
\* request whose toggle or insert succeeded
AnsweredAsSucceeded(h) ==
  IF req[h].kind = "comment"
    THEN /\ req[h].status = 201
         /\ [id |-> req[h].commentId, siteId |-> req[h].site,
             postSlug |-> req[h].postSlug] \in comments
    ELSE /\ req[h].status = 200
         /\ req[h].active
         /\ reactions[<<req[h].site, req[h].postSlug, req[h].reactionKey, req[h].actor>>] = 1
         /\ req[h].count =
              ReactionCount(reactions, req[h].site, req[h].postSlug, req[h].reactionKey)

\* C11: a failure inside the notification task (relay network error, non-2xx
\* relay status, store error) never reaches the triggering request: no step
\* of a task, failing or not, changes a request, its response, the stored
\* comments or the stored reactions; a request that queued a task is
\* answered 201 (comment) or 200 (reaction) with its row stored whatever
\* became of the task; a task makes at most one relay call and a task that
\* is through or has failed never runs again.
C11_TaskFailureIsolated ==
  /\ [](\A h \in Handlers : AnsweredWithTask(h) => AnsweredAsSucceeded(h))
  /\ [](\A i \in DOMAIN tasks : tasks[i].relays <= 1)
  /\ [][ /\ TaskStep => UNCHANGED <<req, pc, op, ret, reactions, comments, posts>>
         /\ \A i \in DOMAIN tasks :
              tasks[i].pc \in {"done", "failed"} => tasks'[i] = tasks[i] ]_vars

\* A comment request was answered 201 and a reaction request 200 while
\* their tasks failed, one at the relay and one at the store
C11_Witness ==
  \E h \in Handlers, i \in DOMAIN tasks, j \in DOMAIN tasks :
    /\ AnsweredWithTask(h)
    /\ tasks[i].origin.kind = req[h].kind /\ tasks[i].origin.id = req[h].id
    /\ tasks[i].pc = "failed" /\ tasks[i].fault = "relay" /\ tasks[i].relays = 1
    /\ tasks[j].origin.kind # tasks[i].origin.kind
    /\ tasks[j].pc = "failed" /\ tasks[j].fault \in {"insert", "load"}

----------------------------------------------------------------------------
(* Claims about the reactor identity *)

\* Handler h has resolved the actor of its request
Resolved(h) == op[h].kind = "resolve" /\ pc[h] = "done" /\ ret[h].kind = "actor"

\* C12: once a valid cookie token is supplied, the resolved actor token is
\* stable across varying IPs: two requests with the same valid cookie and
\* the same user agent from different addresses resolve to the same token.
C12_CookieTokenStableAcrossIps ==
  \A g \in Handlers, h \in Handlers :
    ( /\ Resolved(g) /\ Resolved(h)
      /\ op[g].existing # "" /\ op[g].cookie = op[h].cookie
      /\ op[g].ua = op[h].ua /\ op[g].secret = op[h].secret
      /\ op[g].ip # op[h].ip )
    => ret[g].token = ret[h].token

\* C13: two resolveActor calls with the same non-empty IP, the same user
\* agent, the same server secret and no cookie return the same token, and
\* shouldSetCookie=true both times.
C13_SameIpSameToken ==
  \A g \in Handlers, h \in Handlers :
    ( /\ Resolved(g) /\ Resolved(h)
      /\ op[g].cookie = "" /\ op[h].cookie = ""
      /\ op[g].ip # "" /\ op[g].ip = op[h].ip
      /\ op[g].ua = op[h].ua /\ op[g].secret = op[h].secret )
    => /\ ret[g].token = ret[h].token
       /\ ret[g].shouldSetCookie /\ ret[h].shouldSetCookie

\* Two cookie-less calls from one address and user agent are through with
\* the digest of that address as their token
C13_Witness ==
  /\ Resolved("h1") /\ Resolved("h2")
  /\ op["h1"].cookie = "" /\ op["h2"].cookie = ""
  /\ op["h1"].ip = "1.1.1.1" /\ op["h2"].ip = "1.1.1.1"
  /\ op["h1"].ua = op["h2"].ua /\ op["h1"].secret = op["h2"].secret
  /\ ret["h1"].token = ret["h2"].token /\ ret["h1"].token \in IpDigests

\* A cookie value that is 20 to 64 lower-case hex characters as it stands
LowerHexAsSent(cookie) == cookie \in HexTokens

\* C14 as stated: shouldSetCookie=true exactly when the request carries no
\* valid reactor cookie, valid being 20 to 64 lower-case hex characters after
\* trimming.
C14_SetCookieIffNoValidCookie_AsStated ==
  \A h \in Handlers : Resolved(h) =>
    (ret[h].shouldSetCookie <=> ~LowerHexAsSent(op[h].cookie))

\* C14: shouldSetCookie=true exactly when the request carries no valid
\* reactor cookie, valid being 20 to 64 hex characters after trimming and
\* lower-casing; with a valid cookie it is false and the response sets no
\* cookie, so an existing valid cookie value is never replaced.
C14_SetCookieIffNoValidCookie ==
  \A h \in Handlers : Resolved(h) =>
    /\ ret[h].shouldSetCookie <=> sanitizeActorToken(op[h].cookie) = ""
    /\ sanitizeActorToken(op[h].cookie) # "" => ReactorCookieSet(ret[h]) = ""
    /\ sanitizeActorToken(op[h].cookie) = "" => ReactorCookieSet(ret[h]) = ret[h].token

\* One request carried an upper-case hex cookie and got no new cookie while
\* another carried a value that is no token and got one
C14_Witness ==
  /\ Resolved("h1") /\ Resolved("h2")
  /\ op["h1"].cookie = "AAAAAAAAAAAAAAAAAAAA" /\ ~ret["h1"].shouldSetCookie
  /\ op["h2"].cookie = "xyz" /\ ret["h2"].shouldSetCookie

----------------------------------------------------------------------------
(* Claims about the reaction snapshot *)

\* items holds each of the 14 presets exactly once
EachPresetOnce(items) ==
  /\ Len(items) = Len(ReactionPresets)
  /\ \A k \in PresetKeys : Cardinality({i \in DOMAIN items : items[i].key = k}) = 1

\* items is sorted by count descending, ties in declaration order
SortedByCountThenDeclared(items) ==
  \A i \in DOMAIN items, j \in DOMAIN items : i < j =>
    \/ items[i].count > items[j].count
    \/ /\ items[i].count = items[j].count
       /\ PresetIndex(items[i].key) < PresetIndex(items[j].key)

\* rocket, dragon, lion, then the remaining presets in declared order
RocketDragonLionOrder ==
  << "rocket", "dragon", "lion", "hummingbird", "deer", "eagle", "wolf", "unicorn",
     "phoenix", "orca", "fire", "spark", "mindblown", "respect" >>

KeysOf(items) == [i \in DOMAIN items |-> items[i].key]

\* C15: for every map of counts, the snapshot's items hold each of the 14
\* presets exactly once, sorted by count descending with ties (including all
\* presets of count 0) in declaration order; counts {rocket:5, dragon:3,
\* lion:1} give rocket, dragon, lion, then the rest in declared order; the
\* page renders the buttons in that same order whatever the order of the
\* items it is given.
C15_SnapshotOrder ==
  \A h \in Handlers :
    /\ ret[h].kind = "snapshot" =>
         /\ EachPresetOnce(ret[h].items)
         /\ SortedByCountThenDeclared(ret[h].items)
         /\ \A i \in DOMAIN ret[h].items :
              ret[h].items[i].count = CountOf(op[h].countsByKey, ret[h].items[i].key)
         /\ op[h].countsByKey = [k \in CountKeys |->
                                   CASE k = "rocket" -> 5 [] k = "dragon" -> 3 [] OTHER -> 1]
            => KeysOf(ret[h].items) = RocketDragonLionOrder
    /\ ret[h].kind = "page" => ret[h].buttons = KeysOf(ret[h].snapshot.items)

\* The page of the snapshot of {rocket:5, dragon:3, lion:1}, its items given
\* in reverse, shows rocket, dragon, lion and the rest in declared order
C15_Witness ==
  \E h \in Handlers :
    /\ ret[h].kind = "page" /\ ret[h].order = "reversed"
    /\ ret[h].buttons = RocketDragonLionOrder
    /\ ret[h].snapshot.total = 9

\* Handler h has returned from listPostReactionSnapshot
Listed(h) == op[h].kind = "list" /\ pc[h] = "done" /\ ret[h].kind = "snapshot"

\* The rows of (site, post, key) over all actors in table
RowsOver(table, site, post, key) ==
  Cardinality({t \in ReactionTuples :
                 t[1] = site /\ t[2] = post /\ t[3] = key /\ table[t] > 0})

\* A row (site, post, key, actorToken) exists in table
RowExists(table, site, post, key, actorToken) ==
  /\ <<site, post, key, actorToken>> \in ReactionTuples
  /\ table[<<site, post, key, actorToken>>] > 0

\* C16: the snapshot reports for each preset key a count equal to the number
\* of rows of (siteId, postSlug, key) over all actors, selected=true exactly
\* when a row (siteId, postSlug, key, actorToken) exists, total equal to the
\* sum of the counts and selectedKeys equal to the keys with selected=true;
\* the counts are those of the table as the first SELECT saw it and the
\* selection that of the table as the second saw it, one state when nothing
\* wrote in between.
C16_SnapshotMatchesTable ==
  \A h \in Handlers : Listed(h) =>
    LET items == ret[h].items
    IN /\ EachPresetOnce(items)
       /\ \A i \in DOMAIN items :
            /\ items[i].count =
                 RowsOver(op[h].atCounts, op[h].site, op[h].post, items[i].key)
            /\ items[i].selected <=>
                 RowExists(op[h].atSelected, op[h].site, op[h].post, items[i].key,
                           op[h].actorToken)
       /\ ret[h].total = SumCounts(items)
       /\ {ret[h].selectedKeys[i] : i \in DOMAIN ret[h].selectedKeys}
            = {items[i].key : i \in {j \in DOMAIN items : items[j].selected}}
       /\ Len(ret[h].selectedKeys)
            = Cardinality({j \in DOMAIN items : items[j].selected})

\* A snapshot of an unchanged table with two rows of one key, one of them
\* the actor's
C16_Witness ==
  \E h \in Handlers :
    /\ Listed(h)
    /\ op[h].atCounts = reactions /\ op[h].atSelected = reactions
    /\ ret[h].total = 2
    /\ ret[h].items[1].count = 2 /\ ret[h].items[1].selected
    /\ ret[h].selectedKeys = << ret[h].items[1].key >>

----------------------------------------------------------------------------
(* Claims about read notifications *)

\* The step is a markSiteNotificationsRead of the site that selects the id
MarkStepOf(site, id) ==
  \E h \in Handlers :
    /\ op'[h] # op[h] \/ opsLeft' # opsLeft
    /\ op'[h].kind = "markread" /\ pc'[h] = "done" /\ opsLeft' = opsLeft - 1
    /\ op'[h].site = site
    /\ op'[h].options.all \/ id \in op'[h].options.ids

\* C17: a notification's readAt changes at most once, from null to a
\* timestamp: a row that is read keeps its readAt in every later step; a
\* readAt changes only from null to the current time, only in a
\* markSiteNotificationsRead of the row's site that selects the row (all, or
\* its id); a row is inserted unread.
C17_ReadAtOnce ==
  [][ /\ \A r \in site_notifications, q \in site_notifications' : q.id = r.id =>
           /\ r.readAt # NullTime => q.readAt = r.readAt
           /\ q.readAt # r.readAt =>
                /\ r.readAt = NullTime /\ q.readAt = TimeAt(now)
                /\ MarkStepOf(r.siteId, r.id)
      /\ \A q \in site_notifications' :
           (\A r \in site_notifications : r.id # q.id) => q.readAt = NullTime ]_vars

\* A row read at one time is marked again at a later time and keeps its
\* readAt, while a row of the other site is still unread
C17_Witness ==
  \E r \in site_notifications, q \in site_notifications, h \in Handlers :
    /\ r.readAt # NullTime /\ r.readAt # TimeAt(now)
    /\ op[h].kind = "markread" /\ op[h].site = r.siteId /\ op[h].options.all
    /\ opsLeft = 0
    /\ q.siteId # r.siteId /\ q.readAt = NullTime

----------------------------------------------------------------------------
(* Claims about post renames *)

\* Handler h has completed a rename
Renamed(h) ==
  req[h].kind = "post" /\ req[h].isRenaming /\ pc[h] = "done" /\ req[h].status = 200

\* C18: reassigning comments on a post rename from slug A to slug B is
\* atomic with the post-metadata rename: under any interleaving with
\* concurrent comment requests and under a failure of any step, in no state
\* is the metadata of a slug gone while comments remain under it, and after
\* a rename has completed no comment of the site is stored under A.
C18_RenameAtomic ==
  /\ \A c \in comments : <<c.siteId, c.postSlug>> \in posts
  /\ \A h \in Handlers : Renamed(h) =>
       \A c \in comments : ~(c.siteId = req[h].site /\ c.postSlug = req[h].previousSlug)

----------------------------------------------------------------------------
(* Claims about the comment pages *)

\* Handler h has returned from listPostComments
ListedComments(h) == op[h].kind = "comments" /\ pc[h] = "done"

\* ceil(total / pageSize), stated without the division
IsCeil(pages, total, pageSize) ==
  pages * pageSize >= total /\ (pages - 1) * pageSize < total

\* C19: for every page input (0, negative, non-numeric, above the last page)
\* and every comment count listComments returns, without an error, page in
\* [1, totalPages] with totalPages = max(1, ceil(total / pageSize)); a page
\* above totalPages returns the last page, a page within the range is
\* returned as asked, and page 9999 of a one-page result returns page 1.
C19_PageClamped ==
  \A h \in Handlers : ListedComments(h) =>
    LET r == ret[h]
        asked == op[h].given
    IN /\ r.kind = "comments"
       /\ r.page >= 1 /\ r.page <= r.totalPages
       /\ r.totalPages >= 1
       /\ r.total = 0 => r.totalPages = 1
       /\ r.total > 0 => IsCeil(r.totalPages, r.total, r.pageSize)
       /\ (asked.num /\ asked.n > r.totalPages) => r.page = r.totalPages
       /\ (asked.num /\ asked.n >= 1 /\ asked.n <= r.totalPages) => r.page = asked.n
       /\ (~asked.num \/ asked.n < 1) => r.page = 1
       /\ (asked = Num(MaxPage) /\ r.totalPages = 1) => r.page = 1
       /\ Len(r.comments) <= r.pageSize

\* Page 9999 of a post with two pages and one comment returned page 3 with
\* its one comment
C19_Witness ==
  \E h \in Handlers :
    /\ ListedComments(h)
    /\ op[h].given = Num(MaxPage)
    /\ ret[h].total = MaxStoredComments /\ ret[h].totalPages = 3 /\ ret[h].page = 3
    /\ Len(ret[h].comments) = 1

----------------------------------------------------------------------------
(* Claims about POST /api/view *)

\* Handler h serves a view request that the rate limiter has denied
DeniedView(h) ==
  /\ req[h].kind = "view"
  /\ pc[h] \notin {"idle", "rl_select", "rl_write"}
  /\ ret[h].kind = "rate"
  /\ ~ret[h].allowed

\* C20: when the rate limiter denies a view request the handler answers
\* with HTTP 200 and throttled = true, the count it answers with is the
\* count stored for the resource at that moment (0 when there is no row),
\* and no step of the handler changes the stored view counts.
C20_ThrottledViewReadsOnly ==
  /\ [](\A h \in Handlers :
          (DeniedView(h) /\ pc[h] = "done") =>
             req[h].status = 200 /\ req[h].throttled /\ req[h].count >= 0)
  /\ [][\A h \in Handlers :
          (DeniedView(h) /\ pc'[h] # pc[h]) =>
             /\ page_views' = page_views
             /\ (pc[h] # "done" /\ pc'[h] = "done") =>
                  LET row == page_views[ViewKeyOf(req[h])]
                  IN /\ req'[h].status = 200
                     /\ req'[h].throttled
                     /\ req'[h].count = (IF row.exists THEN row.viewCount ELSE 0)]_vars

\* A third view of the post within the window was answered as throttled
\* with a count of 0, no row being stored for the post
C20_Witness ==
  \E h \in Handlers :
    /\ DeniedView(h) /\ pc[h] = "done"
    /\ req[h].status = 200 /\ req[h].throttled /\ req[h].count = 0
    /\ ~page_views[ViewKeyOf(req[h])].exists

----------------------------------------------------------------------------
(* Claims about the rejection of unknown reaction keys *)

\* Handler h serves a reaction request of an existing site whose reactionKey
\* is not a preset
UnknownKeyRequest(h) ==
  req[h].kind = "reaction" /\ req[h].site # 0 /\ req[h].reactionKey = ""

\* C21: a reaction toggle whose reactionKey is not in the preset vocabulary
\* is rejected before any store access: no call of consumeRateLimit (its
\* SELECT and its write of the rate-limit row) is made for the request.
C21_UnknownKeyNoStoreAccess ==
  \A h \in Handlers : UnknownKeyRequest(h) => op[h].kind # "consume"

----------------------------------------------------------------------------
(* Claims about the stored bot token *)

SessionKeys == {"secret1", "secret2"}

\* The stored value is the versioned ciphertext of a bot token
VersionedCiphertext(c) ==
  c.v = "v1" /\ c.key \in SessionKeys /\ c.plain \in ValidBotTokens

\* C22: the stored telegramBotTokenEncrypted of every site is empty or the
\* versioned ciphertext of a token, never the token as it was given; and
\* the settings returned to the admin API, by the read and after a save,
\* carry no token, only hasBotToken, which says whether one is stored.
C22_TokenOnlyEncrypted ==
  /\ \A site \in Sites :
       LET enc == site_telegram_settings[site].telegramBotTokenEnc
       IN enc = NoCipher \/ VersionedCiphertext(enc)
  /\ \A h \in Handlers :
       (ret[h].kind = "settings" /\ pc[h] = "done") =>
          /\ ret[h].settings.telegramBotToken = ""
          /\ ret[h].settings.hasBotToken \in BOOLEAN

\* A token is stored as ciphertext, and the settings returned after the
\* save that stored it say so without carrying it
C22_Witness ==
  \E h \in Handlers :
    /\ ret[h].kind = "settings" /\ pc[h] = "done"
    /\ ret[h].settings.hasBotToken
    /\ ret[h].settings.telegramBotToken = ""
    /\ VersionedCiphertext(site_telegram_settings[op[h].site].telegramBotTokenEnc)

----------------------------------------------------------------------------
(* Claims about a bot token that cannot be decrypted *)

\* Handler h has answered the request that queued task i
AnsweredFor(h, i) ==
  /\ req[h].kind = tasks[i].origin.kind
  /\ req[h].id = tasks[i].origin.id
  /\ pc[h] = "done"

\* C23: when the stored bot token cannot be decrypted (wrong key, damaged or
\* malformed ciphertext) the task goes on as if no token were stored: its
\* notification row has been created, it makes no relay call and ends
\* without an error, and the request that queued it is answered as a
\* request whose write succeeded.
C23_UndecryptableMeansNoRelay ==
  /\ \A i \in DOMAIN tasks :
       tasks[i].undecryptable =>
          /\ tasks[i].inserted /\ tasks[i].rowsAtLoad = 1
          /\ tasks[i].relays = 0
          /\ tasks[i].pc = "done" /\ tasks[i].fault = "none"
          /\ \A h \in Handlers : AnsweredFor(h, i) => AnsweredAsSucceeded(h)
  /\ \A i \in DOMAIN tasks :
       (tasks[i].loaded /\ Undecryptable(site_telegram_settings[tasks[i].site], secretKey)) =>
          tasks[i].undecryptable

\* The task of an answered comment request found a token written under
\* another key, stored its row and ended without a relay call
C23_Witness ==
  \E h \in Handlers, i \in DOMAIN tasks :
    /\ AnsweredFor(h, i) /\ req[h].kind = "comment" /\ req[h].status = 201
    /\ tasks[i].undecryptable
    /\ site_telegram_settings[tasks[i].site].telegramBotTokenEnc.key = "secret0"
    /\ tasks[i].pc = "done" /\ tasks[i].relays = 0
    /\ \E r \in site_notifications : r.task = i

----------------------------------------------------------------------------
(* Claims about the result of consumeRateLimit *)

\* Handler h returns from consumeRateLimit in this step
ConsumeReturns(h) ==
  /\ pc[h] \in {"rl_select", "rl_write"}
  /\ pc'[h] \notin {"rl_select", "rl_write"}

\* The row the call of h read: the stored row at its SELECT, kept by the
\* call until its write
RowRead(h) == IF pc[h] = "rl_select" THEN rate_limits[op[h].key] ELSE op[h].existing

\* C24: a call of consume that finds its window open returns, when the
\* attempts it read are maxAttempts or more, allowed = false, remaining = 0,
\* retryAfterMs = max(windowMs - (now - windowStartMs), 1000) and the
\* attempts it read, and writes nothing; otherwise allowed = true,
\* attempts = the attempts it read + 1, remaining = maxAttempts - attempts
\* and retryAfterMs = 0.  In every result 0 <= remaining <= maxAttempts.
\* windowMs and maxAttempts are the values the call works with: those passed,
\* raised to 1000 and to 1 when they are lower.
C24_ConsumeResult ==
  [][\A h \in Handlers :
       ConsumeReturns(h) =>
         LET row == RowRead(h)
             args == [windowMs |-> op[h].safeWindowMs,
                      maxAttempts |-> op[h].safeMaxAttempts]
             r == ret'[h]
         IN /\ r.remaining >= 0 /\ r.remaining <= args.maxAttempts
            /\ SameWindow(row, op[h].nowMs, op[h].safeWindowMs) =>
                 IF row.attempts >= args.maxAttempts
                   THEN /\ ~r.allowed
                        /\ r.remaining = 0
                        /\ r.attempts = row.attempts
                        /\ r.retryAfterMs =
                             Max(args.windowMs - (op[h].nowMs - row.windowStartMs), MinWindowMs)
                        /\ rate_limits' = rate_limits
                   ELSE /\ r.allowed
                        /\ r.attempts = row.attempts + 1
                        /\ r.remaining = args.maxAttempts - r.attempts
                        /\ r.retryAfterMs = 0]_vars

\* A call was refused a second after its window opened, with half a second
\* of the window left and retryAfterMs at its floor, and a call was allowed
\* as the second of its window
C24_Witness ==
  /\ \E h \in Handlers :
       /\ pc[h] = "done" /\ op[h].kind = "consume" /\ op[h].key = "kb"
       /\ ~ret[h].allowed /\ ret[h].retryAfterMs = MinWindowMs /\ ret[h].attempts = 2
       /\ now - rate_limits["kb"].windowStartMs >= 1000
  /\ \E h \in Handlers :
       /\ pc[h] = "done" /\ op[h].kind = "consume"
       /\ ret[h].allowed /\ ret[h].attempts = 2 /\ ret[h].remaining = 0

----------------------------------------------------------------------------
(* Claims about clearRateLimit *)

\* Handler h clears key k in this step: a direct call, or the clear of a
\* login
ClearStep(h, k) ==
  \/ pc'[h] # pc[h] /\ op'[h] = [kind |-> "clear", key |-> k]
  \/ pc[h] = "lg_clear" /\ pc'[h] = "lg_respond" /\ k = LoginRateKey

C26_ViewCountMonotone ==
  /\ [](\A k \in ViewKeys : page_views[k].exists => page_views[k].viewCount >= 1)
  /\ [][\A k \in ViewKeys :
          page_views[k].exists =>
            /\ page_views'[k].exists
            /\ page_views'[k].viewCount >= page_views[k].viewCount]_vars

\* The viewed post a was renamed to b and b was deleted: the row of the
\* old slug still holds its count
C26_Witness ==
  /\ page_views[<<1, "post", "a">>].exists
  /\ page_views[<<1, "post", "a">>].viewCount >= 1
  /\ <<1, "a">> \notin posts
  /\ \E h \in Handlers :
       req[h].kind = "postdelete" /\ req[h].postSlug = "b" /\ req[h].status = 200


\* The site an operation in flight was called with (0: none)
SiteOfOp(o) ==
  CASE o.kind \in {"comments", "list", "settings", "markread", "counts", "create",
                   "delete_comment", "notifications"} -> o.site
    [] o.kind = "toggle" -> o.tuple[1]
    [] o.kind = "view" -> IF o.valid THEN o.viewKey[1] ELSE 0
    [] OTHER -> 0

\* The rows of a tenant in the five tables
OwnComments(s) == {c \in comments : c.siteId = s}
OwnReactions(s) == [t \in ReactionTuples |-> IF t[1] = s THEN reactions[t] ELSE 0]
OwnViews(s) == [k \in ViewKeys |-> IF k[1] = s THEN page_views[k] ELSE NoViewRow]
OwnNotifications(s) == NotificationsOf(site_notifications, s)

TenantRows(s) ==
  <<OwnComments(s), OwnReactions(s), OwnViews(s), OwnNotifications(s),
    site_telegram_settings[s], IF s \in OlderSites THEN olderNotifications ELSE << >> >>

\* The step is one of handler h
HandlerActs(h) == pc'[h] # pc[h] \/ op'[h] # op[h] \/ ret'[h] # ret[h]

\* The step belongs to an operation, a notification task or a sweep that
\* was called with site s
ActsFor(s) ==
  \/ \E h \in Handlers : HandlerActs(h) /\ SiteOfOp(op'[h]) = s
  \/ /\ \A h \in Handlers : ~HandlerActs(h)
     /\ opsLeft' < opsLeft
     /\ Len(tasks') = Len(tasks)
     /\ \E h \in Handlers : Free(h) /\ SiteOfOp(op[h]) = s
  \/ Len(tasks') > Len(tasks) /\ tasks'[Len(tasks')].site = s
  \/ \E i \in DOMAIN tasks : tasks'[i] # tasks[i] /\ tasks[i].site = s
  \/ \E j \in DOMAIN ngcTasks : ngcTasks'[j] # ngcTasks[j] /\ ngcTasks[j].site = s

\* What a step of handler h reads is what the rows of its own site give
ReadsOwnRows(h) ==
  LET s == SiteOfOp(op'[h])
  IN /\ pc[h] = "lc_count" /\ pc'[h] = "lc_rows" =>
          op'[h].total = Cardinality(CommentsOf(OwnComments(s), s, op[h].post))
     /\ pc[h] = "lc_rows" /\ pc'[h] = "done" =>
          ret'[h].comments = CommentsPage(OwnComments(s), s, op[h].post,
                                          op[h].safePageSize, op[h].offset)
     /\ pc[h] = "rx_select" /\ pc'[h] # "rx_select" =>
          pc'[h] = IF OwnReactions(s)[op[h].tuple] >= 1 THEN "rx_delete" ELSE "rx_insert"
     /\ pc[h] = "sn_counts" /\ pc'[h] # "sn_counts" =>
          op'[h].countsMap = ReactionCounts(OwnReactions(s), s, op[h].post)
     /\ pc[h] = "sn_selected" /\ pc'[h] = "done" =>
          ret'[h] = buildReactionSnapshot(op[h].countsMap,
                      SelectedOf(OwnReactions(s), s, op[h].post,
                                 sanitizeActorToken(op[h].actorToken)))
     /\ pc[h] = "pv_select" /\ pc'[h] = "done" =>
          ret'[h] = ViewResult(ViewReadBack(OwnViews(s), op[h].viewKey))
     /\ op'[h].kind = "counts" /\ HandlerActs(h) =>
          ret'[h].counts = ViewCountMap(OwnViews(s), s, op'[h].type, op'[h].keys)
     /\ op'[h].kind = "delete_comment" /\ HandlerActs(h) =>
          ret'[h].changed = (\E c \in OwnComments(s) : c.id = op'[h].id)
     /\ pc[h] = "ln_total" /\ pc'[h] = "ln_unread" =>
          op'[h].total = Cardinality(OwnNotifications(s)) + OlderCount(s)
     /\ pc[h] = "ln_unread" /\ pc'[h] = "ln_rows" =>
          op'[h].unread = Cardinality({r \in OwnNotifications(s) : r.readAt = NullTime})
     /\ pc[h] = "ln_rows" /\ pc'[h] = "done" =>
          {n.id : n \in ret'[h].notifications} = {r.id : r \in OwnNotifications(s)}
     /\ op'[h].kind = "settings" /\ ret'[h] # ret[h] =>
          ret'[h].settings = getSiteNotifySettings(site_telegram_settings[s], FALSE, secretKey)

\* C27: tenant isolation.  A step changes a comment, reaction, page-view,
\* notification or settings row of a site only when it belongs to an
\* operation, a notification task or a retention sweep called with that
\* site, and what an operation reads and returns is what the rows of its own
\* site give, whatever rows the other site has.  (The ids the store assigns
\* are left out: see C27_ResultsIndependentOfOtherSite.)
C27_TenantIsolation ==
  [][/\ \A s \in Sites : TenantRows(s)' # TenantRows(s) => ActsFor(s)
     /\ \A h \in Handlers : HandlerActs(h) => ReadsOwnRows(h)
     /\ \A i \in DOMAIN tasks :
          tasks[i].pc = "nt_load" /\ tasks'[i].pc \in {"nt_send", "done"} =>
            tasks'[i].allowed = SettingsAllowRelay(site_telegram_settings[tasks[i].site],
                                                   tasks[i].event.eventType, secretKey)]_vars

\* Site 1 swept its older notifications and asked to delete the comment of
\* site 2: the rows of site 2 are as they were
C27_Witness ==
  /\ FirstNotification \in site_notifications
  /\ \E j \in DOMAIN ngcTasks :
       ngcTasks[j].site = 1 /\ ngcTasks[j].pc = "done" /\ ngcTasks[j].cutoffId > 1
  /\ \E h \in Handlers :
       op[h].kind = "delete_comment" /\ op[h].site = 1 /\ op[h].id = 2 /\ ~ret[h].changed
  /\ [id |-> 2, siteId |-> 2, postSlug |-> "a"] \in comments

\* C27 as stated, on the notifications a site is listed: they are the same
\* whatever the other site does, so the ids of the new ones are the first
\* the store has to give
C27_ResultsIndependentOfOtherSite ==
  \A h \in Handlers :
    ret[h].kind = "notifications" =>
      LET new == {n.id : n \in ret[h].notifications} \ {FirstNotification.id}
      IN new = (OlderNotificationsAtStart + 2)..(OlderNotificationsAtStart + 1 + Cardinality(new))


\* The tasks the comment request of handler h has queued
TasksOfComment(h) ==
  {i \in DOMAIN tasks : tasks[i].origin.kind = "comment" /\ tasks[i].origin.id = req[h].id}

\* The statuses of a rejected comment request: comments disabled, rate
\* limit denied, missing slug, name or content, post (or site) not found
CommentRejections == {403, 429, 400, 404}

\* C28: a comment request answered 201 has inserted its comment and queued
\* exactly one notification event, of type comment for its site and post; a
\* rejected one has queued none, and no step inserts a comment or queues a
\* comment event but the one that creates the comment of a request.
C28_CommentEnqueuesOnce ==
  /\ [](\A h \in Handlers :
          req[h].kind = "comment" =>
            /\ req[h].status = 201 =>
                 /\ Cardinality(TasksOfComment(h)) = 1
                 /\ \A i \in TasksOfComment(h) :
                      /\ tasks[i].site = req[h].site
                      /\ tasks[i].event.eventType = "comment"
                      /\ tasks[i].event.postSlug = req[h].postSlug
                 /\ [id |-> req[h].commentId, siteId |-> req[h].site,
                     postSlug |-> req[h].postSlug] \in comments
            /\ req[h].status \in CommentRejections \cup {0, 500} =>
                 TasksOfComment(h) = {} /\ req[h].commentId = 0)
  /\ [][comments' # comments \/ Len(tasks') # Len(tasks) =>
          \E h \in Handlers :
            /\ req[h].kind = "comment" /\ req[h].status = 0 /\ req'[h].status = 201
            /\ Cardinality(comments') = Cardinality(comments) + 1
            /\ Len(tasks') = Len(tasks) + 1]_vars

\* A request was answered 201 with its one event queued, beside a rejected
\* request that left nothing
C28_Witness ==
  /\ \E h \in Handlers :
       req[h].kind = "comment" /\ req[h].status = 201 /\ Cardinality(TasksOfComment(h)) = 1
  /\ \E g \in Handlers :
       req[g].kind = "comment" /\ req[g].status \in CommentRejections
  /\ Len(tasks) = 1
  /\ Cardinality(comments) = 1


\* Where the statement puts a page: home, now, projects, then the others
PageRank(page) ==
  CASE page.postSlug = "home" -> 1
    [] page.postSlug = "now" -> 2
    [] page.postSlug = "projects" -> 3
    [] OTHER -> 4

\* The page comes before the other one: by its rank, and among the other
\* pages by updatedAt descending, ties by slug
ListedBefore(page, other) ==
  \/ PageRank(page) < PageRank(other)
  \/ /\ PageRank(page) = PageRank(other)
     /\ \/ DateParse(page.updatedAt) > DateParse(other.updatedAt)
        \/ /\ DateParse(page.updatedAt) = DateParse(other.updatedAt)
           /\ SlugIndex(page.postSlug) < SlugIndex(other.postSlug)

PageOfLink(href) == CHOOSE page \in SitePages : "/" \o page.postSlug = href

\* C29: the navigation lists every page passed in once, home first, then
\* now, then projects, then the other pages by updatedAt descending (ties
\* by slug), and the Blog link last, whatever the order they were passed in
\* (without a page there is no navigation).
C29_NavOrder ==
  \A h \in Handlers :
    ret[h].kind = "nav" =>
      LET sitePages == op[h].sitePages
          links == ret[h].links
          n == Len(sitePages)
      IN IF n = 0 THEN links = << >>
         ELSE /\ Len(links) = n + 1
              /\ links[n + 1] = "/"
              /\ {links[i] : i \in 1..n} = {"/" \o sitePages[i].postSlug : i \in 1..n}
              /\ \A i, j \in 1..n :
                   i < j => ListedBefore(PageOfLink(links[i]), PageOfLink(links[j]))

\* The pages were passed in with projects first and home last, between
\* them two other pages of the same updatedAt with the later slug first
C29_Witness ==
  \E h \in Handlers :
    /\ ret[h].kind = "nav"
    /\ Len(op[h].sitePages) = 4
    /\ [i \in 1..4 |-> op[h].sitePages[i].postSlug] = << "projects", "misc", "about", "home" >>
    /\ ret[h].links = << "/home", "/projects", "/about", "/misc", "/" >>


----------------------------------------------------------------------------
(* The order of the steps of POST /api/comments, /api/reactions, /api/view *)

\* The limiter of one of the three routes is exhausted at start-up, or none
ExhaustibleKeys == {CommentRateKey, ReactionRateKey, ViewRateKey("alice", "post", "a")}

InitOrder ==
  \E exhausted \in SUBSET ExhaustibleKeys :
    /\ Cardinality(exhausted) <= 1
    /\ InitRows(MaxRequests,
                [k \in RateKeys |->
                   IF k \in exhausted
                     THEN RateRow(0, RateArgsOf(k).maxAttempts, 0) ELSE NoRateRow],
                [k \in RateKeys |->
                   IF k \in exhausted
                     THEN [NoRateGhost EXCEPT
                             !.win = [open |-> TRUE, start |-> 0,
                                      n |-> RateArgsOf(k).maxAttempts,
                                      reopened |-> FALSE, denied |-> FALSE],
                             !.granted = RateArgsOf(k).maxAttempts]
                     ELSE NoRateGhost],
                SettingsRow(SettingsAllOn, NoCipher, "secret1"), PublishedPosts, {})

\* Two visitors at a time comment, react and open pages; the tasks of the
\* requests run beside them
NextOrder ==
  \/ \E h \in TwoHandlers, r \in CommentRequests : commentRequestBegin(h, r, FALSE)
  \/ \E h \in TwoHandlers, r \in ReactionRequests : reactionRequestBegin(h, r, FALSE)
  \/ \E h \in TwoHandlers, r \in PostViewRequests : viewRequestBegin(h, r, FALSE)
  \/ \E h \in TwoHandlers : consumeRateLimitSelect(h)
  \/ \E h \in TwoHandlers : consumeRateLimitWrite(h)
  \/ \E h \in TwoHandlers : commentRequestValidate(h)
  \/ \E h \in TwoHandlers, f \in BOOLEAN : commentRequestCreate(h, f)
  \/ \E h \in TwoHandlers : reactionRequestValidate(h)
  \/ \E h \in TwoHandlers : togglePostReactionSelect(h)
  \/ \E h \in TwoHandlers : togglePostReactionDelete(h)
  \/ \E h \in TwoHandlers : togglePostReactionInsert(h)
  \/ \E h \in TwoHandlers : reactionRequestNotify(h)
  \/ \E h \in TwoHandlers : reactionRequestRespond(h)
  \/ \E h \in TwoHandlers : viewRequestChecked(h)
  \/ \E h \in TwoHandlers : viewRequestList(h)
  \/ \E h \in TwoHandlers : viewRequestCount(h)
  \/ \E h \in TwoHandlers : incrementPageViewCountUpsert(h)
  \/ \E h \in TwoHandlers : viewRequestStoreFails(h)
  \/ \E h \in TwoHandlers : incrementPageViewCountSelect(h)
  \/ \E h \in TwoHandlers : viewRequestRespond(h)
  \/ \E i \in DOMAIN tasks, f \in BOOLEAN : notifyTaskInsert(i, f, FALSE)
  \/ \E i \in DOMAIN tasks, f \in BOOLEAN : notifyTaskLoad(i, f)
  \/ \E i \in DOMAIN tasks, o \in RelayOutcomes : notifyTaskSend(i, o)

SpecOrder == InitOrder /\ [][NextOrder]_vars

\* The handler comes to the position in this step
Enters(h, positions) == pc'[h] \in positions /\ pc[h] \notin positions

\* The positions of a handler inside consumeRateLimit, and those at which
\* its next statement is a write of the request
ConsumePositions == {"rl_select", "rl_write"}
WritePositions == {"cm_create", "rx_delete", "rx_insert", "pv_upsert"}

\* The step is of handler h, at a write of its request
WritesAt(h, positions) == pc[h] \in positions /\ pc'[h] # pc[h]

\* The task the step queues, when it queues one
QueuedTask == tasks'[Len(tasks')]

\* C30: within every comment, reaction or view request the order is strict.
\* (1) A request calls consumeRateLimit first, with no table of the three
\* written before the call returns, and passes the check only with the
\* result of that call; (2) it comes to its writes (the comment insert, the
\* reaction toggle, the view upsert) only from the passed check with the
\* result allowing it, and for a comment or a reaction only with the post
\* found by getPostMeta in that step; (3) comments, reactions and page_views
\* change only in the step of a handler that stands at the write of its
\* request; (4) a notification task is queued only by the step that
\* completes the comment insert, or by the handler that has the completed
\* reaction insert as its result, and a task is queued at its first
\* statement, so all it does comes after.
C30_RequestOrder ==
  [][/\ \A h \in Handlers :
          /\ Enters(h, ConsumePositions) =>
               /\ Idle(h)
               /\ req'[h].kind \in {"comment", "reaction", "view"}
               /\ UNCHANGED <<comments, reactions, page_views, tasks>>
          /\ Enters(h, {"rq_checked"}) =>
               /\ pc[h] \in ConsumePositions
               /\ ret'[h].kind = "rate"
               /\ ret'[h].allowed = (pc[h] = "rl_write")
               /\ UNCHANGED <<comments, reactions, page_views, tasks>>
          /\ Enters(h, {"cm_create", "rx_select", "vw_count"}) =>
               /\ pc[h] = "rq_checked"
               /\ ret[h].allowed
               /\ pc'[h] = CASE req[h].kind = "comment" -> "cm_create"
                             [] req[h].kind = "reaction" -> "rx_select"
                             [] OTHER -> "vw_count"
               /\ req[h].kind \in {"comment", "reaction"} =>
                    <<req[h].site, req[h].postSlug>> \in posts
          /\ Enters(h, {"rx_delete", "rx_insert"}) => pc[h] = "rx_select"
          /\ Enters(h, {"pv_upsert"}) => pc[h] = "vw_count"
          /\ Enters(h, {"rq_toggled"}) =>
               /\ pc[h] \in {"rx_delete", "rx_insert"}
               /\ ret'[h].active = (pc[h] = "rx_insert")
               /\ ret'[h].active => reactions'[op[h].tuple] >= 1
     /\ comments' # comments =>
          \E h \in Handlers : WritesAt(h, {"cm_create"}) /\ req[h].kind = "comment"
     /\ reactions' # reactions =>
          \E h \in Handlers : WritesAt(h, {"rx_delete", "rx_insert"}) /\ req[h].kind = "reaction"
     /\ page_views' # page_views =>
          \E h \in Handlers : WritesAt(h, {"pv_upsert"}) /\ req[h].kind = "view"
     /\ Len(tasks') # Len(tasks) =>
          /\ Len(tasks') = Len(tasks) + 1
          /\ QueuedTask.pc = "nt_insert"
          /\ ~QueuedTask.inserted
          /\ \E h \in Handlers :
               /\ QueuedTask.origin.kind = req[h].kind
               /\ QueuedTask.origin.id = req[h].id
               /\ \/ /\ req[h].kind = "comment"
                     /\ WritesAt(h, {"cm_create"})
                     /\ \E c \in comments' \ comments :
                          c.siteId = req[h].site /\ c.postSlug = req[h].postSlug
                  \/ /\ req[h].kind = "reaction"
                     /\ pc[h] = "rq_toggled"
                     /\ ret[h].active
     /\ \A i \in DOMAIN tasks : tasks'[i] # tasks[i] => Len(tasks') = Len(tasks)
    ]_vars

\* A comment and a reaction were both answered, each after its consume was
\* counted, and the task of each has written its notification
C30_Witness ==
  /\ \E h \in Handlers : req[h].kind = "comment" /\ req[h].status = 201
  /\ \E h \in Handlers :
       req[h].kind = "reaction" /\ req[h].status = 200 /\ req[h].active
  /\ rate_limits[CommentRateKey].exists
  /\ rate_limits[ReactionRateKey].exists
  /\ Len(tasks) = 2
  /\ \A i \in DOMAIN tasks : tasks[i].inserted


----------------------------------------------------------------------------
(* Rows of rate_limits *)

\* C31: in every reachable state, after any interleaving of consume, clear
\* and the sweep of stale rows, every stored row of rate_limits has
\* attempts >= 1.
C31_AttemptsAtLeastOne ==
  \A k \in RateKeys : rate_limits[k].exists => rate_limits[k].attempts >= 1

\* A day has passed, the row of one key was cleared and is gone, and the
\* row of the other key counts two calls
C31_Witness ==
  /\ now > GcMaxAgeMs
  /\ rlGhost["ka"].cleared
  /\ ~rate_limits["ka"].exists
  /\ rate_limits["kb"].exists
  /\ rate_limits["kb"].attempts = 2


----------------------------------------------------------------------------
(* Bursts at the end of a window *)

\* The clock steps of a burst: a millisecond, and what is left of the
\* window of one of the keys a millisecond before it ends
BurstSteps == {1, 998, 1499}

BurstTick(d) ==
  /\ ticks < MaxBurstTicks
  /\ \A h \in Handlers : Idle(h)
  /\ ticks' = ticks + 1
  /\ now' = now + d
  /\ UNCHANGED <<opsLeft, pc, op, ret, rateVars, nonRateVars>>

InitBurst ==
  InitRows(MaxBurstCalls, [k \in RateKeys |-> NoRateRow],
           [k \in RateKeys |-> [NoRateGhost EXCEPT !.traced = k \in DirectRateKeys]],
           NoSettingsRow, PublishedPosts, {})

\* The calls on the two keys run one after another, the clock moving
\* between them
NextBurst ==
  \/ \E h \in OneHandler, k \in DirectRateKeys :
       consumeRateLimitBegin(h, k, RateArgsOf(k), FALSE)
  \/ \E h \in OneHandler : consumeRateLimitSelect(h)
  \/ \E h \in OneHandler : consumeRateLimitWrite(h)
  \/ \E d \in BurstSteps : BurstTick(d)

SpecBurst == InitBurst /\ [][NextBurst]_vars

WindowOf(k) == SafeWindowMs(RateArgsOf(k).windowMs)
LimitOf(k) == SafeMaxAttempts(RateArgsOf(k).maxAttempts)

\* How many calls of key k were allowed at a time from t to t + W, both ends
\* counted
AllowedWithin(k, t) ==
  Cardinality({i \in DOMAIN rlGhost[k].allowedAt :
                 /\ rlGhost[k].allowedAt[i] >= t
                 /\ rlGhost[k].allowedAt[i] <= t + WindowOf(k)})

\* C32: for consume calls on one key run one after another with fixed
\* windowMs = W and maxAttempts = M, the calls that return allowed = true
\* within any time interval of length W are at most 2 * M.  (That 2 * M is
\* reached, by the M calls of a window that ends and M calls made as soon as
\* it has ended, is what the witness shows.)
C32_BurstAtMostTwiceMax ==
  \A k \in DirectRateKeys :
    \A i \in DOMAIN rlGhost[k].allowedAt :
      AllowedWithin(k, rlGhost[k].allowedAt[i]) <= 2 * LimitOf(k)

\* The window of kb was opened at 0 and its second call was allowed a
\* millisecond before it ended; two more calls were allowed right after the
\* end: 2 * M allowed calls from 0 to W, and the fifth call was refused
C32_Witness ==
  /\ rlGhost["kb"].allowedAt = <<0, WindowOf("kb") - 1, WindowOf("kb"), WindowOf("kb")>>
  /\ AllowedWithin("kb", 0) = 2 * LimitOf("kb")
  /\ opsLeft = 0
  /\ pc["h1"] = "done"
  /\ ~ret["h1"].allowed


----------------------------------------------------------------------------
(* createSiteNotification and the retention sweep, with created_at *)

\* The table is kept as runs of rows: ids lo..hi, the row of id lo + i
\* created at time at + i.  A row stored on its own is a run of one.
NotificationRun(site, lo, hi, at) == [siteId |-> site, lo |-> lo, hi |-> hi, at |-> at]

RunsOf(table, site) == {r \in table : r.siteId = site}

RunSize(r) == r.hi - r.lo + 1

\* How many rows of the run were created at time t or after
RunRowsFrom(r, t) == Max(0, RunSize(r) - Max(0, t - r.at))

\* How many rows of the runs were created at time t or after
RECURSIVE RowsFrom(_, _)
RowsFrom(runs, t) ==
  IF runs = {} THEN 0
  ELSE LET r == CHOOSE x \in runs : TRUE
       IN RunRowsFrom(r, t) + RowsFrom(runs \ {r}, t)

\* SELECT COUNT(*) ... WHERE site_id = ? (no run starts before time 0)
RowCount(table, site) == RowsFrom(RunsOf(table, site), 0)

CreatedAfter(table, site, t) == RowsFrom(RunsOf(table, site), t + 1)

CreatedFrom(table, site, t) == RowsFrom(RunsOf(table, site), t)

\* AUTOINCREMENT: one more than the largest id of the table (rows are
\* stored before the first sweep only)
NextStampedId(table) ==
  IF table = {} THEN 1
  ELSE 1 + (CHOOSE n \in {r.hi : r \in table} : \A r \in table : r.hi <= n)

\* createSiteNotification up to its INSERT: `now` is read from the clock
\* of the worker before the statement is sent
createSiteNotificationBegin(h, site) ==
  /\ Free(h)
  /\ opsLeft > 0
  /\ ngcTasks = << >>
  /\ opsLeft' = opsLeft - 1
  /\ op' = [op EXCEPT ![h] = [kind |-> "notification", site |-> site, now |-> now]]
  /\ ret' = [ret EXCEPT ![h] = NoRet]
  /\ pc' = [pc EXCEPT ![h] = "cn_insert"]
  /\ UNCHANGED <<now, ticks, nonNotifyVars, apiVars, notifyVars>>

\* INSERT INTO site_notifications (..., created_at) VALUES (..., ?), and
\* result.meta.last_row_id
createSiteNotificationInsert(h) ==
  /\ pc[h] = "cn_insert"
  /\ LET id == NextStampedId(site_notifications)
     IN /\ site_notifications' =
             site_notifications \cup {NotificationRun(op[h].site, id, id, op[h].now)}
        /\ ret' = [ret EXCEPT ![h] = [kind |-> "notification", id |-> id]]
  /\ pc' = [pc EXCEPT ![h] = "done"]
  /\ UNCHANGED <<now, ticks, opsLeft, op, nonNotifyVars, apiVars, olderNotifications,
                 site_telegram_settings, secretKey, schemaVars, tasks, ngcTasks>>

\* How many notifications a site receives later on, one call of
\* createSiteNotification after the other, a millisecond apart
LaterNotifications == {NotificationsGcOffset - 1, NotificationsGcOffset}

laterNotificationsStored(site, n) ==
  /\ \A h \in Handlers : Idle(h)
  /\ ngcTasks = << >>
  /\ \A r \in site_notifications : r.lo = r.hi
  /\ LET id == NextStampedId(site_notifications)
     IN site_notifications' =
          site_notifications \cup {NotificationRun(site, id, id + n - 1, now + 1)}
  /\ now' = now + n
  /\ UNCHANGED <<ticks, opsLeft, pc, op, ret, nonNotifyVars, apiVars, olderNotifications,
                 site_telegram_settings, secretKey, schemaVars, tasks, ngcTasks>>

\* The clock of the platform moves on, also while a statement is under way
ClockTick ==
  /\ ticks < MaxTicks
  /\ ngcTasks = << >>
  /\ ticks' = ticks + 1
  /\ now' = now + 1
  /\ UNCHANGED <<opsLeft, pc, op, ret, rateVars, nonRateVars>>

\* The sweep is started after an insert has returned (Math.random() < 0.02);
\* here no insert is under way while it runs.  before and after are ghosts:
\* the table when the sweep starts and when it is through.
notificationsSweepStart(site) ==
  /\ \A h \in Handlers : Idle(h)
  /\ site_notifications # {}
  /\ Len(ngcTasks) < MaxGc
  /\ \A j \in DOMAIN ngcTasks : ngcTasks[j].pc = "done"
  /\ ngcTasks' = Append(ngcTasks,
       [pc |-> "gc_select", site |-> site, cutoffId |-> 0,
        before |-> site_notifications, after |-> {}])
  /\ UNCHANGED <<now, ticks, opsLeft, pc, op, ret, nonNotifyVars, apiVars,
                 site_notifications, olderNotifications, site_telegram_settings,
                 secretKey, schemaVars, tasks>>

\* The ids the store may return for SELECT id ... WHERE site_id = ? ORDER BY
\* created_at DESC LIMIT 1 OFFSET 799: the rows with at most 799 rows
\* created after them and at least 800 created at their time or after (rows
\* of one created_at come in an order the statement does not fix)
CutoffIds(table, site) ==
  LET \* a row of a run has the later rows of the run after it, and at most
      \* the rows of the other runs besides: the only ids to look at
      nearOffset(r) ==
        Max(r.lo, r.hi - NotificationsGcOffset) ..
          Min(r.hi, r.hi - NotificationsGcOffset + (RowCount(table, site) - RunSize(r)))
  IN UNION {{id \in nearOffset(r) :
               /\ CreatedAfter(table, site, r.at + (id - r.lo)) <= NotificationsGcOffset
               /\ CreatedFrom(table, site, r.at + (id - r.lo)) >= NotificationsGcOffset + 1} :
            r \in RunsOf(table, site)}

\* DELETE FROM site_notifications WHERE site_id = ? AND id < ?
StampedDeleteBelow(table, site, cutoffId) ==
  {r \in table : r.siteId # site \/ r.lo >= cutoffId}
    \cup {NotificationRun(site, cutoffId, r.hi, r.at + (cutoffId - r.lo)) :
            r \in {x \in RunsOf(table, site) : x.lo < cutoffId /\ x.hi >= cutoffId}}

\* const cutoffId = Number(cutoff?.id || 0); if (!cutoffId) { return; }
notificationsSweepSelect(j) ==
  /\ ngcTasks[j].pc = "gc_select"
  /\ IF CutoffIds(site_notifications, ngcTasks[j].site) = {}
       THEN ngcTasks' = [ngcTasks EXCEPT ![j].pc = "done", ![j].after = site_notifications]
       ELSE \E cutoffId \in CutoffIds(site_notifications, ngcTasks[j].site) :
              ngcTasks' = [ngcTasks EXCEPT ![j].pc = "gc_delete", ![j].cutoffId = cutoffId]
  /\ UNCHANGED <<now, ticks, opsLeft, pc, op, ret, nonNotifyVars, apiVars,
                 site_notifications, olderNotifications, site_telegram_settings,
                 secretKey, schemaVars, tasks>>

notificationsSweepDelete(j) ==
  /\ ngcTasks[j].pc = "gc_delete"
  /\ site_notifications' =
       StampedDeleteBelow(site_notifications, ngcTasks[j].site, ngcTasks[j].cutoffId)
  /\ ngcTasks' = [ngcTasks EXCEPT
       ![j].pc = "done",
       ![j].after = StampedDeleteBelow(site_notifications, ngcTasks[j].site,
                                       ngcTasks[j].cutoffId)]
  /\ UNCHANGED <<now, ticks, opsLeft, pc, op, ret, nonNotifyVars, apiVars,
                 olderNotifications, site_telegram_settings, secretKey, schemaVars, tasks>>

InitRetention ==
  InitRows(MaxOps, [k \in RateKeys |-> NoRateRow], [k \in RateKeys |-> NoRateGhost],
           NoSettingsRow, PublishedPosts, {})

\* Notifications are stored, some of them by calls that overlap, a site
\* receives its later notifications, and then the sweep runs
NextRetention ==
  \/ \E h \in TwoHandlers, site \in Sites : createSiteNotificationBegin(h, site)
  \/ \E h \in TwoHandlers : createSiteNotificationInsert(h)
  \/ \E n \in LaterNotifications : laterNotificationsStored(1, n)
  \/ ClockTick
  \/ \E site \in Sites : notificationsSweepStart(site)
  \/ \E j \in DOMAIN ngcTasks : notificationsSweepSelect(j)
  \/ \E j \in DOMAIN ngcTasks : notificationsSweepDelete(j)

SpecRetention == InitRetention /\ [][NextRetention]_vars


\* The rows a finished sweep deleted, as runs, and the times of its newest
\* deleted and its oldest kept row
DeletedRuns(g) ==
  {NotificationRun(r.siteId, r.lo, Min(r.hi, g.cutoffId - 1), r.at) :
     r \in {x \in RunsOf(g.before, g.site) : x.lo < g.cutoffId}}

NewestDeleted(g) ==
  CHOOSE t \in {r.at + (r.hi - r.lo) : r \in DeletedRuns(g)} :
    \A r \in DeletedRuns(g) : r.at + (r.hi - r.lo) <= t

OldestKept(g) ==
  CHOOSE t \in {r.at : r \in RunsOf(g.after, g.site)} :
    \A r \in RunsOf(g.after, g.site) : t <= r.at

\* created_at ascends with the id among the rows of the site
AscendingWithId(table, site) ==
  \A r1, r2 \in RunsOf(table, site) : r1.hi < r2.lo => r1.at + (r1.hi - r1.lo) < r2.at

\* C33: when the retention sweep runs for a site holding more than 800
\* notification rows and no insert is concurrent, afterwards exactly the 800
\* rows of that site that are most recent by created_at remain (every
\* deleted row is older than every kept row); with 800 rows or fewer the
\* sweep deletes nothing.
C33_SweepKeepsMostRecent ==
  \A j \in DOMAIN ngcTasks :
    ngcTasks[j].pc = "done" =>
      LET g == ngcTasks[j]
      IN IF RowCount(g.before, g.site) <= NotificationsGcOffset + 1
           THEN g.after = g.before
           ELSE /\ RowCount(g.after, g.site) = NotificationsGcOffset + 1
                /\ DeletedRuns(g) # {}
                /\ NewestDeleted(g) < OldestKept(g)
                /\ \A s \in Sites \ {g.site} : RunsOf(g.after, s) = RunsOf(g.before, s)

\* The sweep does what C33 says wherever created_at ascends with the id
SweepKeepsMostRecentWhenAscending ==
  \A j \in DOMAIN ngcTasks :
    (ngcTasks[j].pc = "done" /\ AscendingWithId(ngcTasks[j].before, ngcTasks[j].site)) =>
      LET g == ngcTasks[j]
      IN IF RowCount(g.before, g.site) <= NotificationsGcOffset + 1
           THEN g.after = g.before
           ELSE /\ RowCount(g.after, g.site) = NotificationsGcOffset + 1
                /\ DeletedRuns(g) # {}
                /\ NewestDeleted(g) < OldestKept(g)
                /\ \A s \in Sites \ {g.site} : RunsOf(g.after, s) = RunsOf(g.before, s)


----------------------------------------------------------------------------
(* Schema bootstrap: ensureCommentsTable, ensureRateLimitsTable and the     *)
(* module's *TableReadyPromise variables                                    *)

\* The promise of one run of a bootstrap: the table, the handle its CREATE
\* statements go to, the statement it stands at, and how it settled
NewBootstrap(table, db) ==
  [table |-> table, db |-> db, step |-> "create_table", state |-> "pending"]

\* A catch handler that leaves the rejected promise in the variable
KeepRejected(ready, table) == ready

\* .catch((error) => { commentsTableReadyPromise = null; throw error; })
ResetOnError(ready, table) == [ready EXCEPT ![table] = 0]

\* ensureCommentsTable(env) / ensureRateLimitsTable(env) up to its return:
\* if (!readyPromise) { readyPromise = (async () => {...})().catch(...) },
\* the first CREATE being sent to env.DB; return readyPromise
ensureTableCall(h, db, table) ==
  /\ Free(h)
  /\ opsLeft > 0
  /\ opsLeft' = opsLeft - 1
  /\ IF readyPromise[table] = 0
       THEN /\ bootstraps' = Append(bootstraps, NewBootstrap(table, db))
            /\ readyPromise' = [readyPromise EXCEPT ![table] = Len(bootstraps) + 1]
            /\ op' = [op EXCEPT ![h] =
                 [kind |-> "ensure", db |-> db, table |-> table,
                  promise |-> Len(bootstraps) + 1, started |-> TRUE]]
       ELSE /\ UNCHANGED <<bootstraps, readyPromise>>
            /\ op' = [op EXCEPT ![h] =
                 [kind |-> "ensure", db |-> db, table |-> table,
                  promise |-> readyPromise[table], started |-> FALSE]]
  /\ ret' = [ret EXCEPT ![h] = NoRet]
  /\ pc' = [pc EXCEPT ![h] = "et_await"]
  /\ UNCHANGED <<now, ticks, nonNotifyVars, apiVars, site_notifications, olderNotifications,
                 site_telegram_settings, secretKey, tasks, ngcTasks>>

\* await env.DB.prepare(`CREATE TABLE IF NOT EXISTS ...`).run(); a rejection
\* runs the catch handler before any other caller goes on
bootstrapCreateTable(p, storeFails) ==
  /\ bootstraps[p].state = "pending"
  /\ bootstraps[p].step = "create_table"
  /\ IF storeFails
       THEN /\ bootstraps' = [bootstraps EXCEPT ![p].state = "rejected"]
            /\ readyPromise' = ResetOnError(readyPromise, bootstraps[p].table)
       ELSE /\ bootstraps' = [bootstraps EXCEPT ![p].step = "create_index"]
            /\ readyPromise' = readyPromise
  /\ UNCHANGED <<now, ticks, opsLeft, pc, op, ret, nonNotifyVars, apiVars, site_notifications,
                 olderNotifications, site_telegram_settings, secretKey, tasks, ngcTasks>>

\* await env.DB.prepare(`CREATE INDEX IF NOT EXISTS ...`).run()
bootstrapCreateIndex(p, storeFails) ==
  /\ bootstraps[p].state = "pending"
  /\ bootstraps[p].step = "create_index"
  /\ IF storeFails
       THEN /\ bootstraps' = [bootstraps EXCEPT ![p].state = "rejected"]
            /\ readyPromise' = ResetOnError(readyPromise, bootstraps[p].table)
       ELSE /\ bootstraps' = [bootstraps EXCEPT ![p].step = "done", ![p].state = "fulfilled"]
            /\ readyPromise' = readyPromise
  /\ UNCHANGED <<now, ticks, opsLeft, pc, op, ret, nonNotifyVars, apiVars, site_notifications,
                 olderNotifications, site_telegram_settings, secretKey, tasks, ngcTasks>>

\* The table is there on the handle: a bootstrap sent to it got past its
\* CREATE TABLE (the model starts with the tables missing on every handle)
TableOn(db, table) ==
  \E p \in DOMAIN bootstraps :
    /\ bootstraps[p].db = db
    /\ bootstraps[p].table = table
    /\ bootstraps[p].step # "create_table"

\* `await ensure...Table(env)` in a caller: the promise it was given has
\* settled; the caller goes on to its first statement or throws
ensureTableSettled(h) ==
  /\ pc[h] = "et_await"
  /\ bootstraps[op[h].promise].state # "pending"
  /\ IF bootstraps[op[h].promise].state = "fulfilled"
       THEN /\ pc' = [pc EXCEPT ![h] = "et_query"]
            /\ ret' = ret
       ELSE /\ pc' = [pc EXCEPT ![h] = "failed"]
            /\ ret' = [ret EXCEPT ![h] = StoreError]
  /\ UNCHANGED <<now, ticks, opsLeft, op, nonNotifyVars, apiVars, notifyVars>>

\* The caller's first statement on the table, sent to its env.DB: it is
\* answered if the table is there on that handle
firstStatement(h) ==
  /\ pc[h] = "et_query"
  /\ ret' = [ret EXCEPT ![h] =
       IF TableOn(op[h].db, op[h].table) THEN [kind |-> "rows"] ELSE StoreError]
  /\ pc' = [pc EXCEPT ![h] = "done"]
  /\ UNCHANGED <<now, ticks, opsLeft, op, nonNotifyVars, apiVars, notifyVars>>

InitSchema == Init

\* Callers of the two ensure functions, with either handle, two at a time
NextSchema ==
  \/ \E h \in TwoHandlers, db \in DbHandles, t \in SchemaTables : ensureTableCall(h, db, t)
  \/ \E p \in DOMAIN bootstraps, f \in BOOLEAN : bootstrapCreateTable(p, f)
  \/ \E p \in DOMAIN bootstraps, f \in BOOLEAN : bootstrapCreateIndex(p, f)
  \/ \E h \in TwoHandlers : ensureTableSettled(h)
  \/ \E h \in TwoHandlers : firstStatement(h)

SpecSchema == InitSchema /\ [][NextSchema]_vars

\* C34: schema-readiness memoization is keyed by store handle identity: a
\* caller reaches its first query on a table only after a bootstrap of the
\* table has run on the caller's own handle, also when the table was
\* bootstrapped through another handle before.
C34_BootstrapPerHandle ==
  \A h \in Handlers :
    (op[h].kind = "ensure" /\ pc[h] \in {"et_query", "done"}) =>
      \E p \in DOMAIN bootstraps :
        /\ bootstraps[p].table = op[h].table
        /\ bootstraps[p].db = op[h].db
        /\ bootstraps[p].state = "fulfilled"


\* The bootstraps of a table, in the order they were started
BootstrapsOf(table) == {p \in DOMAIN bootstraps : bootstraps[p].table = table}

\* What holds of the promises and their callers in every state
SingleFlightState ==
  /\ \A t \in SchemaTables :
       /\ Cardinality({p \in BootstrapsOf(t) : bootstraps[p].state = "pending"}) <= 1
       /\ \A p, q \in BootstrapsOf(t) : p < q => bootstraps[p].state = "rejected"
       /\ readyPromise[t] # 0 =>
            /\ readyPromise[t] \in BootstrapsOf(t)
            /\ bootstraps[readyPromise[t]].state # "rejected"
       /\ readyPromise[t] = 0 =>
            \A p \in BootstrapsOf(t) : bootstraps[p].state = "rejected"
  /\ \A h \in Handlers :
       op[h].kind = "ensure" =>
         /\ op[h].promise \in BootstrapsOf(op[h].table)
         /\ (pc[h] = "et_await" /\ bootstraps[op[h].promise].state = "pending") =>
              op[h].promise = readyPromise[op[h].table]
         /\ pc[h] = "failed" <=>
              (pc[h] # "et_await" /\ bootstraps[op[h].promise].state = "rejected")
         /\ pc[h] \in {"et_query", "done"} =>
              bootstraps[op[h].promise].state = "fulfilled"

\* C40: per table, schema bootstrap is single-flight and retried after
\* failure.  At most one bootstrap of a table is in flight, and every caller
\* that arrives while it is holds its promise; once a bootstrap of the table
\* has succeeded no later one is started (no CREATE is issued again); a
\* caller whose promise was rejected throws, and one whose promise was
\* fulfilled goes on; the variable never holds a rejected promise, so the
\* call after a failure starts a new bootstrap.
C40_SingleFlightRetried ==
  /\ []SingleFlightState
  /\ [][\A h \in Handlers :
          (pc'[h] = "et_await" /\ pc[h] # "et_await") =>
            LET t == op'[h].table
            IN /\ bootstraps'[op'[h].promise].state # "rejected"
               /\ IF readyPromise[t] = 0
                    THEN /\ bootstraps' = Append(bootstraps, NewBootstrap(t, op'[h].db))
                         /\ op'[h].promise = Len(bootstraps')
                    ELSE /\ bootstraps' = bootstraps
                         /\ op'[h].promise = readyPromise[t]]_vars

\* Two callers shared the first bootstrap of comments: the one that had not
\* started it threw when it failed; the next call started a second
\* bootstrap, which succeeded, and its caller ran its statement
C40_Witness ==
  /\ Len(bootstraps) = 2
  /\ bootstraps[1] = [NewBootstrap("comments", "db1") EXCEPT
                        !.step = "create_index", !.state = "rejected"]
  /\ bootstraps[2].table = "comments"
  /\ bootstraps[2].state = "fulfilled"
  /\ pc["h2"] = "failed"
  /\ op["h2"].promise = 1
  /\ ~op["h2"].started
  /\ pc["h1"] = "done"
  /\ op["h1"].promise = 2
  /\ op["h1"].started
  /\ ret["h1"] = [kind |-> "rows"]


----------------------------------------------------------------------------
(* The sweep of stale rate-limit rows *)

\* What a call of consumeRateLimit returns on the row it reads
ConsumeResultOn(row, nowMs, w, m) ==
  IF ~SameWindow(row, nowMs, w) THEN RateResult(TRUE, 1, Max(m - 1, 0), 0)
  ELSE IF row.attempts >= m THEN RateDenied(row, nowMs, w)
  ELSE RateResult(TRUE, row.attempts + 1, Max(m - (row.attempts + 1), 0), 0)

\* The times at which a sweep may run beside one that runs now
SweepTimes == {now, now + 500, now + GcMaxAgeMs + 500}

\* A sweep run now would change the result of no call: neither of a call
\* that is about to read its row, nor of one that starts now
SweepUnseen ==
  /\ \A h \in Handlers :
       pc[h] = "rl_select" =>
         ConsumeResultOn(RateGcDelete(rate_limits, now)[op[h].key],
                         op[h].nowMs, op[h].safeWindowMs, op[h].safeMaxAttempts)
           = ConsumeResultOn(rate_limits[op[h].key],
                             op[h].nowMs, op[h].safeWindowMs, op[h].safeMaxAttempts)
  /\ \A k \in DirectRateKeys :
       ConsumeResultOn(RateGcDelete(rate_limits, now)[k], now,
                       SafeWindowMs(RateArgsOf(k).windowMs),
                       SafeMaxAttempts(RateArgsOf(k).maxAttempts))
         = ConsumeResultOn(rate_limits[k], now,
                           SafeWindowMs(RateArgsOf(k).windowMs),
                           SafeMaxAttempts(RateArgsOf(k).maxAttempts))

----------------------------------------------------------------------------
(* Requests without an address *)

\* Handler h has resolved the actor of a request that carried neither an
\* address nor a valid cookie
ResolvedAnonymous(h) == Resolved(h) /\ op[h].ip = "" /\ op[h].existing = ""

\* C36: without a request address resolveReactorToken gives no stable
\* identity.  A call without a cookie returns the token that randomHex drew
\* for this very call, with shouldSetCookie=true; the token depends on
\* nothing the request carries, so two such calls (also with the same user
\* agent, under the same secret) return different tokens whenever the
\* random generator gave them different draws.
C36_NoAddressNoStableIdentity ==
  \A g \in Handlers, h \in Handlers :
    ResolvedAnonymous(g) /\ ResolvedAnonymous(h) =>
      /\ ret[g].token = op[g].random
      /\ ret[g].token \in RandomHex
      /\ ret[g].shouldSetCookie
      /\ ReactorCookieSet(ret[g]) = op[g].random
      /\ op[g].random # op[h].random => ret[g].token # ret[h].token

\* Two requests of one user agent, without address and cookie, under one
\* secret, are through with two different random tokens
C36_Witness ==
  /\ ResolvedAnonymous("h1") /\ ResolvedAnonymous("h2")
  /\ op["h1"].cookie = "" /\ op["h2"].cookie = ""
  /\ op["h1"].ua = op["h2"].ua /\ op["h1"].secret = op["h2"].secret
  /\ ret["h1"].token # ret["h2"].token
  /\ ret["h1"].shouldSetCookie /\ ret["h2"].shouldSetCookie


----------------------------------------------------------------------------
(* Calls inside an open window *)

\* Handler h returns from consumeRateLimit in this step
ConsumeDone(h) == pc[h] \in {"rl_select", "rl_write"} /\ pc'[h] \notin {"rl_select", "rl_write"}

\* The call of h found its key inside an open window
SawOpenWindow(h) ==
  \/ pc[h] = "rl_select"
       /\ SameWindow(rate_limits[op[h].key], op[h].nowMs, op[h].safeWindowMs)
  \/ pc[h] = "rl_write"
       /\ SameWindow(op[h].existing, op[h].nowMs, op[h].safeWindowMs)

\* C37: a call of consumeRateLimit made inside an open window never moves
\* the window.  When it is allowed, its write changes attempts and
\* updatedAt of the row of its key and nothing else: windowStartMs stays,
\* every other row stays.  When it is denied, the table stays as it is.
\* The windowStartMs of a stored row changes only by the write of a call
\* that found no open window, and becomes the clock reading of that call;
\* so where the calls of a key follow one another, the stored window is the
\* one opened by the first call of it.
C37_OpenWindowNotMoved ==
  /\ [][/\ \A h \in Handlers :
             ConsumeDone(h) /\ SawOpenWindow(h) =>
               LET k == op[h].key
               IN IF ret'[h].allowed
                    THEN /\ \A j \in RateKeys \ {k} : rate_limits'[j] = rate_limits[j]
                         /\ rate_limits'[k].exists = rate_limits[k].exists
                         /\ rate_limits'[k].windowStartMs = rate_limits[k].windowStartMs
                         /\ rate_limits[k].exists =>
                              /\ rate_limits'[k].attempts = ret'[h].attempts
                              /\ rate_limits'[k].updatedAt = op[h].nowMs
                    ELSE rate_limits' = rate_limits
        /\ \A k \in RateKeys :
             ( /\ rate_limits[k].exists /\ rate_limits'[k].exists
               /\ rate_limits'[k].windowStartMs # rate_limits[k].windowStartMs )
             => \E h \in Handlers :
                  /\ pc[h] = "rl_write" /\ op[h].key = k /\ ~SawOpenWindow(h)
                  /\ rate_limits'[k].windowStartMs = op[h].nowMs]_vars
  /\ [](\A k \in RateKeys :
          ( /\ rate_limits[k].exists /\ ~BusyOnKey(k)
            /\ ~rlGhost[k].overlapped /\ ~rlGhost[k].cleared )
          => rate_limits[k].windowStartMs = rlGhost[k].win.start)

\* The window of kb was opened at 0; a second call at 500 was counted and
\* a third, also at 500, refused: the row still starts at 0
C37_Witness ==
  /\ rate_limits["kb"] = RateRow(0, 2, 500)
  /\ rlGhost["kb"].win.denied
  /\ ~rlGhost["kb"].overlapped
  /\ now = 500
  /\ \E h \in Handlers :
       /\ pc[h] = "done" /\ op[h].kind = "consume" /\ op[h].key = "kb"
       /\ ~ret[h].allowed


----------------------------------------------------------------------------
(* POST /api/login after failed attempts *)

\* The login limiter's row of the client as three or four failed logins,
\* made one after another, leave it
InitLockout ==
  \E failed \in {FailedLogins - 1, FailedLogins} :
    InitRows(MaxOps,
             [k \in RateKeys |->
                IF k = LoginRateKey THEN RateRow(0, failed, 0) ELSE NoRateRow],
             [k \in RateKeys |->
                IF k = LoginRateKey
                  THEN [NoRateGhost EXCEPT
                          !.win = [open |-> TRUE, start |-> 0, n |-> failed,
                                   reopened |-> FALSE, denied |-> FALSE],
                          !.granted = failed]
                  ELSE NoRateGhost],
             NoSettingsRow, PublishedPosts, {})

SpecLockout == InitLockout /\ [][NextLogin]_vars

\* Handler h serves a login that arrived when the limiter had allowed five
\* logins of the client in the window, all answered, none successful
ArrivedAfterFiveFailures(h) ==
  /\ req[h].kind = "login"
  /\ req[h].allowedBefore >= LOGIN_RATE_MAX_ATTEMPTS
  /\ req[h].failedBefore

\* The login of h is refused by the limiter: its password is not checked,
\* the key is not cleared, the answer is 429
RefusedUnchecked(h) ==
  /\ pc[h] \notin {"lg_clear", "lg_respond"}
  /\ req[h].status \in {0, 429}
  /\ ~req[h].cleared
  /\ pc[h] = "rq_checked" => ~ret[h].allowed

\* The order of the steps of a login: the password is checked only after
\* consumeRateLimit allowed the request, the key is cleared only by a login
\* whose password was right, and the answer of a login that failed leaves
\* the table of the limiter as it is
LoginOrder ==
  [][\A h \in Handlers :
       /\ (pc[h] = "rq_checked" /\ req[h].kind = "login" /\ pc'[h] # pc[h]) =>
            /\ rate_limits' = rate_limits
            /\ ~ret[h].allowed => req'[h].status = 429
            /\ pc'[h] = "lg_clear" =>
                 /\ ret[h].allowed
                 /\ verifyPassword(req[h].password, AdminSecretHash(req[h].slug))
            /\ req'[h].status = 401 =>
                 /\ ret[h].allowed
                 /\ ~verifyPassword(req[h].password, AdminSecretHash(req[h].slug))
       /\ (req[h].kind = "login" /\ rate_limits[LoginRateKey].exists
           /\ ~rate_limits'[LoginRateKey].exists /\ pc'[h] # pc[h]) =>
            pc[h] = "lg_clear"]_vars

\* C38: the login handler consumes the rate limit before it checks the
\* password and clears it only after a successful check; once five logins
\* of one client on one site were allowed in a window and none of them
\* succeeded, every further login in that window is answered 429 with the
\* password unchecked, the right password included.
C38_LockedAfterFiveFailures ==
  /\ LoginOrder
  /\ [](\A h \in Handlers : ArrivedAfterFiveFailures(h) => RefusedUnchecked(h))

\* The same where the calls of consumeRateLimit on the key of the client
\* never overlapped
LockedAfterFiveFailuresInTurn ==
  /\ LoginOrder
  /\ [](\A h \in Handlers :
          ArrivedAfterFiveFailures(h) /\ ~rlGhost[LoginRateKey].overlapped
            => RefusedUnchecked(h))

\* A login with the right password, arriving after five failed ones made in
\* turn, was answered 429
LockedInTurnSeen ==
  \E h \in Handlers :
    /\ ArrivedAfterFiveFailures(h) /\ ~rlGhost[LoginRateKey].overlapped
    /\ req[h].password = "pw-alice" /\ req[h].slug = req[h].host
    /\ req[h].status = 429


----------------------------------------------------------------------------
(* upsertSiteNotifySettings: the token and the other fields *)

\* Patches of the owner: nothing given at all; every field given, with a
\* token; another token with clearBotToken; switches given in part with a
\* chat id and a token that are none, and clearBotToken
PatchPayloads ==
  { [enabled |-> Undefined, notifyComments |-> Undefined, notifyReactions |-> Undefined,
     telegramChatId |-> "", telegramBotToken |-> "", clearBotToken |-> FALSE],
    [enabled |-> Given(TRUE), notifyComments |-> Given(FALSE), notifyReactions |-> Given(FALSE),
     telegramChatId |-> "-100123456", telegramBotToken |-> "123456:AAAAAAAAAAAAAAAAAAAAAAAA",
     clearBotToken |-> FALSE],
    [enabled |-> Undefined, notifyComments |-> Undefined, notifyReactions |-> Undefined,
     telegramChatId |-> "", telegramBotToken |-> "654321:BBBBBBBBBBBBBBBBBBBBBBBB",
     clearBotToken |-> TRUE],
    [enabled |-> Given(TRUE), notifyComments |-> Undefined, notifyReactions |-> Given(FALSE),
     telegramChatId |-> "@channel", telegramBotToken |-> "not-a-token",
     clearBotToken |-> TRUE] }

\* Saves of the owner of one site, from two windows at once
NextPatch ==
  \/ \E h \in TwoHandlers, site \in SettingsSites, payload \in PatchPayloads :
       upsertSiteNotifySettingsBegin(h, site, payload)
  \/ \E h \in TwoHandlers : upsertSiteNotifySettingsWrite(h)
  \/ \E h \in TwoHandlers : upsertSiteNotifySettingsRead(h)

SpecPatch == Init /\ [][NextPatch]_vars

\* The INSERT ... ON CONFLICT of handler h runs in this step
SettingsWritten(h) == pc[h] = "ns_write" /\ pc'[h] = "ns_read"

\* What the step of h stores in the switches and the chat id: the value
\* given, the default for one omitted, nothing of the stored row
OtherFieldsOverwritten(h) ==
  LET p == op[h].payload
      new == site_telegram_settings'[op[h].site]
  IN /\ new.exists
     /\ new.enabled = IF p.enabled.given /\ p.enabled.val THEN 1 ELSE 0
     /\ new.notifyComments = IF p.notifyComments.given /\ ~p.notifyComments.val THEN 0 ELSE 1
     /\ new.notifyReactions = IF p.notifyReactions.given /\ ~p.notifyReactions.val THEN 0 ELSE 1
     /\ new.telegramChatId = IF p.telegramChatId \in ValidChatIds THEN p.telegramChatId ELSE ""
     /\ \A other \in DOMAIN site_telegram_settings \ {op[h].site} :
          site_telegram_settings'[other] = site_telegram_settings[other]

\* What the step of h stores as the token, `kept` being the ciphertext a
\* patch without a token and without clearBotToken leaves
TokenStored(h, kept) ==
  LET p == op[h].payload
      new == site_telegram_settings'[op[h].site]
  IN IF p.telegramBotToken \in ValidBotTokens
       THEN /\ new.telegramBotTokenEnc # NoCipher
            /\ decryptSensitiveValue(new.telegramBotTokenEnc, secretKey)
                 = [ok |-> TRUE, plain |-> p.telegramBotToken]
     ELSE IF p.clearBotToken THEN new.telegramBotTokenEnc = NoCipher
     ELSE new.telegramBotTokenEnc = kept

====
